---------------------------- MODULE Spec2Model ----------------------------
(***************************************************************************)
(* Interactive session controller of the Math Teacher front end:           *)
(*   - ToolProvider / ToolDisplay: the active tool session and its         *)
(*     completion callback (respond), behind the shared rate limiter;      *)
(*   - NumberLine in demo mode: the timer-driven demo player with          *)
(*     pause / resume through window.__numberLineDemoControl;              *)
(*   - VisualCalculator: '=' and 'Send to Teacher';                        *)
(*   - DemoInterruptionManager / MathActions: the interruption detector.   *)
(*                                                                         *)
(* React is modelled at the granularity of one event handler or timer      *)
(* callback per step: the state updates of a handler, the render they      *)
(* cause and the effects of that render are one atomic step.  Values a     *)
(* callback closes over are kept where the code keeps them: in the timer   *)
(* record, or in the control object registered by an effect.               *)
(***************************************************************************)
EXTENDS Integers, Sequences, FiniteSets, TLC

\* ------------------------------------------------------------- bounds
MaxA == 1               \* first operand of a problem: 1..MaxA
MaxB == 2               \* second operand of a problem: 0..MaxB
MaxPauseCalls == 2      \* pause() calls in a run of the model
MaxResumeCalls == 2     \* resume() calls in a run of the model
MaxSessions == 2        \* tool action handler calls in a run of the model
MaxCalcA == 1           \* first operand keyed into the calculator
MaxSubmits == 2         \* calculator '=' and 'Send to Teacher' clicks
MaxUserMsgs == 2        \* user messages typed in a run of the model
MaxMessages == 9        \* length of the chat transcript
MaxGradeA == 2          \* first operand of a graded problem: 0..MaxGradeA
MaxGradeB == 2          \* second operand of a graded problem: 0..MaxGradeB
MaxGradeCalls == 4      \* grader calls of one caller
MaxAnswer == 4          \* whole part of a typed answer: 0..MaxAnswer
MaxSubmissions == 7     \* calculator submissions while the limiter is watched
MaxChecks == 6          \* answers of a practice problem checked
MaxGradings == 3        \* grading calls while replacements are watched
MaxClockSteps == 3      \* steps of the clock in a run of the model
MaxTokens == 3          \* words and signs of a classified message
MaxProviderCalls == 2   \* pauseDemo and resumeDemo calls of the ToolProvider
MaxClicks == 4          \* clicks on a number line shown for manual work
MaxExprLen == 4         \* characters of an expression put to the validator
MaxValidations == 3     \* validations of one expression, and of others in between
MaxTranscript == 10     \* length of the transcript of a learner who asks to continue

\* -------------------------------------------------- program constants
FirstStepDelayMs == 2000
StepDelayMs == 1200
ResumeSettleMs == 500
MAX_CALLS == 5
WINDOW_MS == 30000

NoTime == 0 - 1
NoTick == 0 - 1
NoNumber == 0 - 1000
\* the number NaN handed to a function that takes whole numbers
NaN == 0 - 2000000
\* the number Infinity: beyond every bound
Infinity == 2000000

VARIABLES
    now,                \* Date.now()
    messages,           \* chat transcript (useCopilotMessagesContext)
    activeToolConfig,   \* ToolProvider state
    sessionCount,       \* sessions created so far (their ids)
    pendingTools,       \* tool configs waiting for their activation timeout
    nl,                 \* the mounted NumberLine instance, if any
    resumeTimers,       \* pending resume-settle timeouts (untracked)
    completionTimers,   \* pending completion timeouts (untracked)
    calc,               \* the mounted VisualCalculator instance, if any
    calls,              \* FrontendRateLimiter.calls
    sink,               \* invocations of respond: the completion sink
    det,                \* DemoInterruptionManager stateRef and effects
    ma,                 \* MathActions state
    thinkTimers,        \* pending 'Let me think' timeouts
    h,                  \* history: counters and logs of calls
    validationCallbacks, \* ValidationActions: the registry of callbacks
    gradingCalls,       \* grading calls that have not returned yet
    practice,           \* the mounted ProblemPractice instance, if any
    submitTimers,       \* pending submission timeouts of ProblemPractice
    grader,             \* a caller of the graders: its inputs and results
    classifier,         \* a message put to the manager's tests, and their results
    provider,           \* ToolProvider state: demoState and isDemoPaused
    validator           \* FrontendValidator: lastIndex of its patterns, and a caller

vars == <<now, messages, activeToolConfig, sessionCount, pendingTools, nl, resumeTimers,
          completionTimers, calc, calls, sink, det, ma, thinkTimers, h,
          validationCallbacks, gradingCalls, practice, submitTimers, grader,
          classifier, provider,
        validator>>

\* The state of step validation
validationVars == <<validationCallbacks, gradingCalls, practice, submitTimers, grader,
                    classifier, provider,
        validator>>

\* ------------------------------------------------------------ helpers
Last(s) == s[Len(s)]

RemoveAt(s, i) == SubSeq(s, 1, i - 1) \o SubSeq(s, i + 1, Len(s))

\* ------------------------------------------------- texts and messages
\* A text is the sequence of its words
NoReason == [fmt |-> "none", text |-> <<>>]
PlainReason(t) == [fmt |-> "plain", text |-> t]
\* `Answering: "${userMessage}"`
AnsweringReason(userMessage) == [fmt |-> "answering", text |-> userMessage]

\* A text: pin says whether it starts with the pin prefix, tag names the
\* template, n and reason and text fill it in.
Text(pin, tag, n, reason, text) ==
    [pin |-> pin, tag |-> tag, n |-> n, reason |-> reason, text |-> text]
Narration(tag, n) == Text(TRUE, tag, n, NoReason, <<>>)
PauseNarration(reason) == Text(TRUE, "paused", 0, reason, <<>>)
Plain(tag) == Text(FALSE, tag, 0, NoReason, <<>>)
UserText(t) == Text(FALSE, "user", 0, NoReason, t)

\* message.replace('📍 ', '')
CleanMessage(m) == [m EXCEPT !.pin = FALSE]

NewMessage(id, role, content, createdAt) ==
    [id |-> id, role |-> role, content |-> content, createdAt |-> createdAt]

\* sendMessageToChat: setMessages(prev => [...prev, new TextMessage(...)])
SendMessageToChat(msgs, content, t) ==
    Append(msgs, NewMessage(Len(msgs) + 1, "assistant", content, t))

RECURSIVE SendAllToChat(_, _, _)
SendAllToChat(msgs, contents, t) ==
    IF contents = <<>> THEN msgs
    ELSE SendAllToChat(SendMessageToChat(msgs, Head(contents), t),
                       Tail(contents), t)

\* ----------------------------------------------------------- problems
\* A problem text "<x> <op> <y>"; op "*" stands for every text the number
\* line cannot parse.
Problem(x, op, y) == [x |-> x, op |-> op, y |-> y]
NumberLineOps == {"+", "-"}
Problems == {Problem(x, op, y) : x \in 1..MaxA, op \in {"+", "-", "*"}, y \in 0..MaxB}

NoNumbers == [ok |-> FALSE, firstNumber |-> 0, secondNumber |-> 0, operator |-> "-"]

ParseNumbers(problem) ==
    IF problem.op \in NumberLineOps
    THEN [ok |-> TRUE, firstNumber |-> problem.x, secondNumber |-> problem.y,
          operator |-> IF problem.op = "+" THEN "+" ELSE "-"]
    ELSE NoNumbers

OperationOf(problem) == IF problem.op = "+" THEN "addition" ELSE "subtraction"


\* ------------------------------------------------------------ graders
\* Operators of a problem text: "×" stands for every text that no grader
\* can parse.
PracticeOps == {"+", "-", "*", "/"}

\* A number with decimals is counted in thousandths
Thousandths(n) == n * 1000

\* A quotient is kept as a fraction; den = 0 is Infinity or NaN
Fraction(num, den) == [num |-> num, den |-> den]
NoAnswer == Fraction(NoNumber, 1)

\* A validation result; the fields a grader leaves out are absent
GradeResult(result, is_correct, mistake_type, guidance_level) ==
    [thrown |-> FALSE, result |-> result, is_correct |-> is_correct,
     mistake_type |-> mistake_type, guidance_level |-> guidance_level,
     hint |-> NoNumber, problem_completed |-> FALSE, final_answer |-> NoNumber,
     remaining_steps |-> NoNumber, correct_answer |-> NoAnswer]

\* throw new Error("Could not parse math problem")
Thrown == [GradeResult("none", FALSE, "null", "none") EXCEPT !.thrown = TRUE]

\* lastValidationResult before any result
NoResult == GradeResult("null", FALSE, "null", "none")

\* The fallback result of the validate_learning_step handler
FallbackResult == GradeResult("needs_guidance", FALSE, "validation_error", "gentle")

\* if (remainingSteps <= 0): problem completed
NoneRemaining(remainingSteps) == remainingSteps <= 0

\* A mistake analysis that does not look at the direction
MistakeTypeNoDirection(operator, lastPosition, expectedNext, proposed_step) ==
    IF operator = "+" /\ proposed_step > expectedNext THEN "skipping_numbers"
    ELSE "incorrect_sequence"

\* The mistake analysis of a step that is not expectedNext
MistakeType(operator, lastPosition, expectedNext, proposed_step) ==
    IF operator = "+" /\ proposed_step > expectedNext THEN "skipping_numbers"
    ELSE IF operator = "+" /\ proposed_step < lastPosition THEN "wrong_direction"
    ELSE "incorrect_sequence"

\* guidance_level of the three mistakes
GuidanceLevel(mistake_type) ==
    CASE mistake_type = "skipping_numbers" -> "gentle"
      [] mistake_type = "wrong_direction" -> "specific"
      [] OTHER -> "helpful"

\* validateNumberLineStep(problem, operation, {current_steps, proposed_step})
ValidateNumberLineStep(problem, current_steps, proposed_step) ==
    IF problem.op \notin NumberLineOps THEN Thrown
    ELSE LET firstNum == problem.x
             operator == problem.op
             secondNum == problem.y
             one == IF operator = "+" THEN 1 ELSE 0 - 1
         IN IF Len(current_steps) = 0
            THEN IF proposed_step = firstNum
                 THEN [GradeResult("correct", TRUE, "null", "encouraging")
                          EXCEPT !.hint = firstNum + one]
                 ELSE [GradeResult("incorrect", FALSE, "wrong_starting_number", "specific")
                          EXCEPT !.hint = firstNum]
            ELSE LET lastPosition == Last(current_steps)
                     expectedNext == lastPosition + one
                     stepsTaken == Len(current_steps) - 1
                     remainingSteps == secondNum - stepsTaken - 1
                 IN IF proposed_step = expectedNext
                    THEN IF NoneRemaining(remainingSteps)
                         THEN [GradeResult("correct", TRUE, "null", "celebration")
                                  EXCEPT !.problem_completed = TRUE,
                                         !.final_answer = firstNum + one * secondNum]
                         ELSE [GradeResult("correct", TRUE, "null", "encouraging")
                                  EXCEPT !.hint = expectedNext + one,
                                         !.remaining_steps = remainingSteps]
                    ELSE LET mistake == MistakeType(operator, lastPosition,
                                                    expectedNext, proposed_step)
                         IN [GradeResult("incorrect", FALSE, mistake,
                                         GuidanceLevel(mistake))
                                EXCEPT !.hint = expectedNext]

\* What is typed into an answer field or passed as user_input: nothing,
\* the decimal notation of a number (value, in thousandths), or a text
\* that is no number
NoInput == [kind |-> "empty", value |-> 0]
NumberInput(value) == [kind |-> "number", value |-> value]
TextInput == [kind |-> "text", value |-> 0]

\* parseFloat(user_input.trim()): a text that is no number yields NaN,
\* and nothing is thrown
ParseFloat(user_input) ==
    IF user_input.kind = "number"
    THEN [nan |-> FALSE, value |-> user_input.value]
    ELSE [nan |-> TRUE, value |-> 0]

\* correctAnswer of the switch on the operator
CorrectAnswer(problem) ==
    CASE problem.op = "+" -> Fraction(problem.x + problem.y, 1)
      [] problem.op = "-" -> Fraction(problem.x - problem.y, 1)
      [] problem.op = "*" -> Fraction(problem.x * problem.y, 1)
      [] problem.op = "/" -> Fraction(problem.x, problem.y)

Abs(n) == IF n < 0 THEN 0 - n ELSE n

\* A tolerance that accepts the exact answer only
CloseToExact(userAnswer, correctAnswer) ==
    /\ ~userAnswer.nan
    /\ correctAnswer.den # 0
    /\ userAnswer.value * correctAnswer.den = Thousandths(correctAnswer.num)

\* Math.abs(userAnswer - correctAnswer) < 0.01, false for NaN and Infinity
CloseTo(userAnswer, correctAnswer) ==
    /\ ~userAnswer.nan
    /\ correctAnswer.den # 0
    /\ Abs(userAnswer.value * correctAnswer.den - Thousandths(correctAnswer.num))
          < 10 * correctAnswer.den

\* userAnswer === n
SameNumber(userAnswer, n) == ~userAnswer.nan /\ userAnswer.value = Thousandths(n)

\* validatePracticeStep(problem, operation, {user_input, step_number})
ValidatePracticeStep(problem, user_input, step_number) ==
    IF user_input.kind = "empty"
    THEN GradeResult("needs_guidance", FALSE, "null", "gentle")
    ELSE LET userAnswer == ParseFloat(user_input)
         IN IF problem.op \notin PracticeOps THEN Thrown
            ELSE LET correctAnswer == CorrectAnswer(problem)
                 IN IF CloseTo(userAnswer, correctAnswer)
                    THEN [GradeResult("correct", TRUE, "null", "celebration")
                             EXCEPT !.correct_answer = correctAnswer]
                    ELSE IF /\ problem.op = "+"
                            /\ \/ SameNumber(userAnswer, problem.x)
                               \/ SameNumber(userAnswer, problem.y)
                    THEN GradeResult("incorrect", FALSE, "not_adding", "specific")
                    ELSE [GradeResult("incorrect", FALSE, "incorrect_calculation",
                                      IF step_number = 1 THEN "gentle" ELSE "specific")
                             EXCEPT !.correct_answer = correctAnswer]

\* validateCalculatorStep: every expression is acknowledged
ValidateCalculatorStep(expression) ==
    GradeResult("correct", TRUE, "null",
                IF expression.kind = "empty" THEN "gentle" ELSE "encouraging")

\* processValidationLocally
ProcessValidationLocally(tool_type, problem, validation_data) ==
    CASE tool_type = "number_line" ->
            ValidateNumberLineStep(problem, validation_data.current_steps,
                                   validation_data.proposed_step)
      [] tool_type = "practice_problem" ->
            ValidatePracticeStep(problem, validation_data.user_input,
                                 validation_data.step_number)
      [] tool_type = "calculator" ->
            ValidateCalculatorStep(validation_data.user_input)
      [] OTHER -> Thrown

\* validation_data of a number line step and of a practice answer
StepData(current_steps, proposed_step) ==
    [current_steps |-> current_steps, proposed_step |-> proposed_step,
     user_input |-> NoInput, step_number |-> 0]
AnswerData(user_input, step_number) ==
    [current_steps |-> <<>>, proposed_step |-> NoNumber,
     user_input |-> user_input, step_number |-> step_number]

\* ----------------------------------------------------- tool sessions
NoTool == [type |-> "none", sid |-> 0, problem |-> Problem(0, "*", 0),
           operation |-> "addition", muted |-> FALSE]

\* ToolConfig built by useActivateTool from activateToolWithDemo's arguments.
\* sid identifies the respond closure; muted is the isDemoInterrupted that
\* enhancedSendMessage closed over.
ToolConfig(type, sid, problem, operation, muted) ==
    [type |-> type, sid |-> sid, problem |-> problem,
     operation |-> operation, muted |-> muted]

IsDemoType(type) == type = "demonstrate_number_line"

\* ToolDisplay.renderTool: the tool types rendered as a NumberLine
RendersNumberLine(type) == type \in {"number_line", "demonstrate_number_line"}

\* ------------------------------------------------ NumberLine instance
NoSaved == [set |-> FALSE, currentStep |-> 0, nextStepDelay |-> 0,
            pauseReason |-> NoReason, resumeAt |-> NoTime]

\* What the pause and resume closures registered in
\* window.__numberLineDemoControl have captured of the component's state.
ControlOf(n) == [isDemoComplete |-> n.isDemoComplete,
                 savedDemoState |-> n.savedDemoState]

NoInstance ==
    [mounted |-> FALSE, sid |-> 0, demoMode |-> FALSE, muted |-> FALSE,
     problem |-> Problem(0, "*", 0), numbers |-> NoNumbers,
     operation |-> "addition",
     demoStep |-> 0, isDemoComplete |-> FALSE, isDemoPaused |-> FALSE,
     pauseReason |-> NoReason, savedDemoState |-> NoSaved,
     resumeRequested |-> FALSE, selectedNumber |-> NoNumber,
     steps |-> <<>>, messageHistory |-> <<>>, tick |-> NoTick,
     showValidationFeedback |-> FALSE, hideTimers |-> 0,
     ctl |-> [isDemoComplete |-> FALSE, savedDemoState |-> NoSaved]]

\* useState initial values of a NumberLine rendered by ToolDisplay
InitialInstance(cfg) ==
    [NoInstance EXCEPT !.mounted = TRUE, !.sid = cfg.sid,
                       !.demoMode = IsDemoType(cfg.type),
                       !.muted = cfg.muted,
                       !.problem = cfg.problem,
                       !.numbers = ParseNumbers(cfg.problem),
                       !.operation = cfg.operation]

\* What an effect or handler of the instance yields: the instance, the
\* texts handed to sendIntermediateMessage, the completion timeouts set.
Yield(n, out, completion) == [n |-> n, out |-> out, completion |-> completion]

\* sendAndCollectMessage: the history gets the text without its pin
Collect(n, m) == [n EXCEPT !.messageHistory = Append(@, CleanMessage(m))]

\* A demo that only counts forward
AlwaysForward(operator) == 1

Direction(operator) == IF operator = "+" THEN 1 ELSE 0 - 1

DemoResult(numbers) ==
    IF numbers.operator = "+"
    THEN numbers.firstNumber + numbers.secondNumber
    ELSE numbers.firstNumber - numbers.secondNumber

NextStepDelay(demoStep) == IF demoStep = 0 THEN FirstStepDelayMs ELSE StepDelayMs

StepMessage(numbers, demoStep) ==
    IF demoStep = 1
    THEN Narration("letsOp", numbers.secondNumber)
    ELSE Narration("step", demoStep)

\* The completion timeout set by the final step: it closes over the
\* messageHistory of the render whose effect sets it.
CompletionTimer(n, result) ==
    [sid |-> n.sid, phase |-> 1, result |-> result, muted |-> n.muted,
     problem |-> n.problem, messageHistory |-> n.messageHistory,
     demoMode |-> n.demoMode]

\* A demo effect that stops moving one step early
StillMovingStrict(n) == n.demoStep < n.numbers.secondNumber

\* else if (demoStep <= secondNumber): the demo is still moving
StillMoving(n) == n.demoStep <= n.numbers.secondNumber

\* The demo effect's body (runDemo), run after its cleanup
DemoEffect(n) ==
    IF ~n.demoMode \/ ~n.numbers.ok \/ n.isDemoComplete \/ n.isDemoPaused
       \/ n.resumeRequested
    THEN Yield(n, <<>>, <<>>)
    ELSE IF n.demoStep = 0
    THEN LET m == Narration("start", n.numbers.firstNumber)
         IN Yield([Collect(n, m) EXCEPT
                       !.selectedNumber = n.numbers.firstNumber,
                       !.steps = <<n.numbers.firstNumber>>,
                       !.tick = 1],
                  <<m>>, <<>>)
    ELSE IF StillMoving(n)
    THEN LET nextPosition == n.numbers.firstNumber
                             + Direction(n.numbers.operator) * n.demoStep
             m == StepMessage(n.numbers, n.demoStep)
         IN Yield([Collect(n, m) EXCEPT
                       !.steps = Append(@, nextPosition),
                       !.tick = n.demoStep + 1],
                  <<m>>, <<>>)
    ELSE LET result == DemoResult(n.numbers)
             m == Narration("done", result)
         IN Yield([Collect(n, m) EXCEPT !.isDemoComplete = TRUE],
                  <<m>>, <<CompletionTimer(n, result)>>)

DemoDepsChanged(old, new) ==
    \/ new.demoStep # old.demoStep
    \/ new.isDemoComplete # old.isDemoComplete
    \/ new.isDemoPaused # old.isDemoPaused
    \/ new.resumeRequested # old.resumeRequested

ControlDepsChanged(old, new) ==
    \/ new.isDemoPaused # old.isDemoPaused
    \/ new.demoStep # old.demoStep

\* The render after a handler turned the instance from old into new: the
\* control effect registers fresh closures when its dependencies changed;
\* the demo effect clears its timeout and runs again when its dependencies
\* changed.
Render(old, new) ==
    LET n1 == IF ControlDepsChanged(old, new)
              THEN [new EXCEPT !.ctl = ControlOf(new)] ELSE new
    IN IF DemoDepsChanged(old, new)
       THEN DemoEffect([n1 EXCEPT !.tick = NoTick])
       ELSE Yield(n1, <<>>, <<>>)

\* The mount message effect
MountMessage(n) ==
    IF n.demoMode THEN Narration("watch", 0)
    ELSE Narration("clickStart", n.numbers.firstNumber)

\* First render of a NumberLine and its effects, in the order the
\* component declares them.
Mount(cfg) ==
    LET n0 == InitialInstance(cfg)
        n1 == [n0 EXCEPT !.ctl = ControlOf(n0)]
        greet == n1.numbers.ok
        n2 == IF greet THEN Collect(n1, MountMessage(n1)) ELSE n1
        y == DemoEffect(n2)
    IN Yield(y.n, (IF greet THEN <<MountMessage(n1)>> ELSE <<>>) \o y.out,
             y.completion)

\* The state updates and the narration of pauseDemo, as the control object
\* holds it, before the render they cause
PauseUpdates(n, reason, t) ==
    IF ~n.demoMode \/ n.ctl.isDemoComplete
    THEN Yield(n, <<>>, <<>>)
    ELSE LET currentState == [set |-> TRUE, currentStep |-> n.demoStep,
                              nextStepDelay |-> NextStepDelay(n.demoStep),
                              pauseReason |-> reason, resumeAt |-> t]
             m == PauseNarration(reason)
         IN Yield([Collect(n, m) EXCEPT
                       !.isDemoPaused = TRUE,
                       !.pauseReason = reason,
                       !.savedDemoState = currentState],
                  <<m>>, <<>>)

\* pauseDemo called on its own: its updates and their render
PauseDemo(n, reason, t) ==
    LET u == PauseUpdates(n, reason, t)
        y == Render(n, u.n)
    IN Yield(y.n, u.out \o y.out, y.completion)

ResumeTimer(n) == [sid |-> n.sid, currentStep |-> n.ctl.savedDemoState.currentStep]

\* A resumeDemo without its guard
AlwaysSavedDemoState(n) == TRUE

\* savedDemoState as the resume closure of the control object sees it
HasSavedDemoState(n) == n.ctl.savedDemoState.set

\* The state updates and the narration of resumeDemo, as the control
\* object holds it, before the render they cause; timers: the settle
\* timeouts it sets.
ResumeUpdates(n) ==
    IF ~HasSavedDemoState(n)
    THEN [n |-> n, out |-> <<>>, timers |-> <<>>]
    ELSE LET m == Narration("resuming", 0)
         IN [n |-> [Collect(n, m) EXCEPT
                        !.isDemoPaused = FALSE,
                        !.pauseReason = NoReason,
                        !.resumeRequested = TRUE],
             out |-> <<m>>, timers |-> <<ResumeTimer(n)>>]

\* resumeDemo called on its own: its updates and their render
ResumeDemo(n) ==
    LET u == ResumeUpdates(n)
        y == Render(n, u.n)
    IN [n |-> y.n, out |-> u.out \o y.out, completion |-> y.completion,
        timers |-> u.timers]

\* The settle timeout of resumeDemo firing in a mounted instance
ResumeSettle(n, currentStep) ==
    Render(n, [n EXCEPT !.resumeRequested = FALSE, !.demoStep = currentStep])

\* The demo effect's timeout firing: setDemoStep(demoStep + 1)
TickFire(n) == Render(n, [n EXCEPT !.demoStep = n.tick, !.tick = NoTick])


\* sendIntermediateMessage of a session: enhancedSendMessage passes the
\* texts on to sendMessageToChat unless the demo was interrupted when the
\* session was activated.
SendIntermediate(muted, msgs, out, t) ==
    IF muted THEN msgs ELSE SendAllToChat(msgs, out, t)

\* ------------------------------------------------------- rate limiter
\* A limiter that still counts a call made exactly a window ago
RecentCallsInclusive(cs, t) ==
    SelectSeq(cs, LAMBDA timestamp : t - timestamp <= WINDOW_MS)

\* this.calls.filter(timestamp => now - timestamp < this.WINDOW_MS)
RecentCalls(cs, t) == SelectSeq(cs, LAMBDA timestamp : t - timestamp < WINDOW_MS)

\* A limiter that records the calls it rejects too
IsAllowedRecordingAll(cs, t) ==
    [allowed |-> Len(RecentCalls(cs, t)) < MAX_CALLS,
     calls |-> Append(RecentCalls(cs, t), t)]

\* FrontendRateLimiter.isAllowed at time t
IsAllowed(cs, t) ==
    LET kept == RecentCalls(cs, t)
    IN IF Len(kept) >= MAX_CALLS
       THEN [allowed |-> FALSE, calls |-> kept]
       ELSE [allowed |-> TRUE, calls |-> Append(kept, t)]

\* FrontendRateLimiter.getRemainingCalls at time t
GetRemainingCalls(cs, t) ==
    LET kept == RecentCalls(cs, t)
    IN [remaining |-> IF MAX_CALLS - Len(kept) > 0 THEN MAX_CALLS - Len(kept) ELSE 0,
        calls |-> kept]

\* ---------------------------------------------------- completion sink
MAX_ANSWER_VALUE == 1000000

\* FrontendValidator.validateToolResponse on a problem of the shape
\* "<int> <op> <int>" and a numeric answer
ValidToolResponse(problem, answer) ==
    /\ answer # NaN
    /\ answer <= MAX_ANSWER_VALUE /\ 0 - answer <= MAX_ANSWER_VALUE

InitMa == [activeDemoType |-> "null", isDemoInterrupted |-> FALSE]

\* respond of a session: enhancedRespond around nonBlockingRespond
Respond(st, sid, type, message) ==
    [st EXCEPT
        !.sink = Append(@, [sid |-> sid, message |-> message]),
        !.messages = SendMessageToChat(@,
                        Text(FALSE, "respond", message.n, NoReason, <<message.tag>>),
                        st.now),
        !.ma = IF IsDemoType(type) THEN InitMa ELSE @]

\* A handleToolResponse that validates whether or not a message history
\* is handed to it
HandleToolResponseWithoutHistory(st, sid, type, problem, answer, messageHistory) ==
    LET r == IsAllowed(st.calls, st.now)
        st1 == [st EXCEPT !.calls = r.calls]
    IN IF ~r.allowed
       THEN [st1 EXCEPT !.calls = GetRemainingCalls(r.calls, st.now).calls]
       ELSE IF ValidToolResponse(problem, answer)
       THEN Respond(st1, sid, type, Text(FALSE, "completion", answer, NoReason, <<>>))
       ELSE Respond(st1, sid, type, Text(FALSE, "fallback", answer, NoReason, <<>>))

\* ToolDisplay.handleToolResponse of the session (sid, type), on the state
\* st = [now, calls, sink, messages, ma]
HandleToolResponse(st, sid, type, problem, answer, messageHistory) ==
    LET r == IsAllowed(st.calls, st.now)
        st1 == [st EXCEPT !.calls = r.calls]
    IN IF ~r.allowed
       THEN [st1 EXCEPT !.calls = GetRemainingCalls(r.calls, st.now).calls]
       ELSE IF Len(messageHistory) > 0
       THEN Respond(st1, sid, type, Text(FALSE, "signal", 0, NoReason, <<>>))
       ELSE IF ValidToolResponse(problem, answer)
       THEN Respond(st1, sid, type, Text(FALSE, "completion", answer, NoReason, <<>>))
       ELSE Respond(st1, sid, type, Text(FALSE, "fallback", answer, NoReason, <<>>))

SinkState == [now |-> now, calls |-> calls, sink |-> sink,
              messages |-> messages, ma |-> ma]

SetSinkState(st) ==
    /\ calls' = st.calls
    /\ sink' = st.sink
    /\ messages' = st.messages
    /\ ma' = st.ma

\* ------------------------------------------------- history variables
\* The narrations a transcript holds, in the form sendAndCollectMessage
\* collects them
Narrations(msgs) ==
    LET pinned == SelectSeq(msgs, LAMBDA m : m.content.pin)
    IN [i \in 1..Len(pinned) |-> CleanMessage(pinned[i].content)]

\* pauseCalls, resumeCalls: calls of the control object's pause and resume;
\* ticks: demo timeouts fired; submits: calculator clicks; userMsgs: user
\* messages typed; replaced: activations that found a session active;
\* demoStartLen: length of the transcript when the demonstrate handler
\* last ran; reported: calls of onInterruption and onResume; handed: calls
\* of onAnswer by a demo.
\* gradings: grading calls started; clockSteps: steps of the clock;
\* limiter: the calls of isAllowed, their time and their verdict.
InitH == [pauseCalls |-> 0, resumeCalls |-> 0, ticks |-> 0, submits |-> 0,
          userMsgs |-> 0, replaced |-> 0, demoStartLen |-> 0,
          reported |-> <<>>, handed |-> <<>>,
          gradings |-> 0, clockSteps |-> 0, limiter |-> <<>>,
          providerCalls |-> 0, clicks |-> 0, clicked |-> NoNumber]

\* The history after a call of handleToolResponse in the current state
LimiterCalled(hh) ==
    [hh EXCEPT !.limiter = Append(@, [t |-> now,
                                      allowed |-> IsAllowed(calls, now).allowed])]

\* ---------------------------------------------------------- detector
InitDet == [isMonitoring |-> FALSE, lastProcessedMessageId |-> 0,
            pendingQueries |-> <<>>, lastMessageTimestamp |-> 0,
            seen |-> 0, wasActive |-> FALSE]

\* A message before the manager's tests are put to it
NoClassifier ==
    [content |-> <<>>, queried |-> FALSE, isUserQuery |-> FALSE,
     resumeChecked |-> FALSE, hasResumeRequest |-> FALSE]

\* ------------------------------------------------------- calculator
NoCalc == [mounted |-> FALSE, sid |-> 0, hasExpression |-> FALSE,
           expression |-> Problem(0, "+", 0), display |-> 0,
           isResult |-> FALSE]

\* ------------------------------------------------- ProblemPractice
\* useState initial values of ProblemPractice; stepFeedback names the
\* text shown: none, the feedback of a result, or the fallback text
NoPractice ==
    [mounted |-> FALSE, sid |-> 0, problem |-> Problem(0, "×", 0),
     answer |-> NoInput, validationInProgress |-> FALSE,
     stepFeedback |-> "none", lastValidationResult |-> NoResult,
     showValidationFeedback |-> FALSE, stepNumber |-> 1,
     hasValidated |-> FALSE]

\* A caller of the graders before its first call
NoGrader ==
    [tool_type |-> "none", problem |-> Problem(0, "×", 0),
     current_steps |-> <<>>, step_number |-> 1, calls |-> 0,
     data |-> StepData(<<>>, NoNumber), result |-> NoResult]

\* useState initial values of a ProblemPractice rendered by ToolDisplay
InitialPractice(cfg) ==
    [NoPractice EXCEPT !.mounted = TRUE, !.sid = cfg.sid,
                       !.problem = cfg.problem]

\* `${tool_type}_${problem}`
CallbackKey(tool_type, problem) == [tool_type |-> tool_type, problem |-> problem]

\* The callback the effect of a ProblemPractice registers: it belongs to
\* the instance sid and closes over the answer of the render it was
\* built in.
PracticeCallback(p) ==
    [key |-> CallbackKey("practice_problem", p.problem), sid |-> p.sid,
     answer |-> p.answer]

\* ValidationUtils.registerCallback: validationCallbacks.set(key, callback)
RegisterCallback(registry, callback) ==
    {c \in registry : c.key # callback.key} \cup {callback}

\* ValidationUtils.unregisterCallback: validationCallbacks.delete(key)
UnregisterCallback(registry, key) == {c \in registry : c.key # key}

\* validationCallbacks.get(key): the callbacks found, none or one
GetCallback(registry, key) == {c \in registry : c.key = key}

\* The registry after ToolDisplay replaced the tool it showed: the
\* cleanup of the instance that goes runs before the effect of the
\* instance that comes.
Remounted(registry, old, new) ==
    LET cleaned == IF old.mounted
                   THEN UnregisterCallback(registry,
                            CallbackKey("practice_problem", old.problem))
                   ELSE registry
    IN IF new.mounted THEN RegisterCallback(cleaned, PracticeCallback(new))
       ELSE cleaned

\* A grading call that has not returned: origin says who made it, sid is
\* the instance that made it (0 for the action)
GradingCall(origin, sid, tool_type, problem, data) ==
    [origin |-> origin, sid |-> sid, tool_type |-> tool_type,
     problem |-> problem, data |-> data]

\* The callback of ProblemPractice applied to the instance p that
\* registered it
ApplyResult(p, result) ==
    [p EXCEPT !.lastValidationResult = result,
              !.stepFeedback = "result",
              !.showValidationFeedback = TRUE,
              !.validationInProgress = FALSE]

\* The submission timeout the callback sets for a correct result
SubmitTimer(callback) ==
    [sid |-> callback.sid, problem |-> callback.key.problem,
     numericAnswer |-> ParseFloat(callback.answer)]

\* The catch branch of validateAnswer
PracticeFallback(p) ==
    [p EXCEPT !.validationInProgress = FALSE,
              !.stepFeedback = "fallback",
              !.showValidationFeedback = TRUE]

\* The numbers typed into ProblemPractice are whole: the number a
\* parseFloat yields, as handleToolResponse takes it
WholeNumber(numericAnswer) ==
    IF numericAnswer.nan THEN NaN ELSE numericAnswer.value \div 1000

\* No callback registered, no grading call made, no practice problem shown
ValidationIdle ==
    /\ validationCallbacks = {}
    /\ gradingCalls = <<>>
    /\ practice = NoPractice
    /\ submitTimers = <<>>

\* --------------------------------------------------------- demo steps
otherThanDemo == <<activeToolConfig, sessionCount, pendingTools, calc, det, thinkTimers,
                   validationVars>>

\* The demo effect's timeout fires.  A settle timeout of resumeDemo that
\* is pending was set before this tick timeout and is shorter, so it has
\* fired before.
DemoTick ==
    /\ nl.mounted /\ nl.tick # NoTick
    /\ ResumeSettleMs < StepDelayMs =>
          \A i \in 1..Len(resumeTimers) : resumeTimers[i].sid # nl.sid
    /\ LET y == TickFire(nl)
       IN /\ nl' = y.n
          /\ messages' = SendIntermediate(nl.muted, messages, y.out, now)
          /\ completionTimers' = completionTimers \o y.completion
    /\ h' = [h EXCEPT !.ticks = @ + 1]
    /\ UNCHANGED <<now, resumeTimers, calls, sink, ma, otherThanDemo>>

\* window.__numberLineDemoControl.pause(reason)
PauseCall(reason) ==
    /\ nl.mounted
    /\ h.pauseCalls < MaxPauseCalls
    /\ LET y == PauseDemo(nl, reason, now)
       IN /\ nl' = y.n
          /\ messages' = SendIntermediate(nl.muted, messages, y.out, now)
          /\ completionTimers' = completionTimers \o y.completion
    /\ h' = [h EXCEPT !.pauseCalls = @ + 1]
    /\ UNCHANGED <<now, resumeTimers, calls, sink, ma, otherThanDemo>>

\* window.__numberLineDemoControl.resume()
ResumeCall ==
    /\ nl.mounted
    /\ h.resumeCalls < MaxResumeCalls
    /\ LET y == ResumeDemo(nl)
       IN /\ nl' = y.n
          /\ messages' = SendIntermediate(nl.muted, messages, y.out, now)
          /\ completionTimers' = completionTimers \o y.completion
          /\ resumeTimers' = resumeTimers \o y.timers
    /\ h' = [h EXCEPT !.resumeCalls = @ + 1]
    /\ UNCHANGED <<now, calls, sink, ma, otherThanDemo>>

\* The oldest settle timeout of resumeDemo fires; its state updates reach
\* the instance that set it only while that instance is mounted.
ResumeTimerFires ==
    /\ resumeTimers # <<>>
    /\ LET t == Head(resumeTimers)
           y == IF nl.mounted /\ nl.sid = t.sid
                THEN ResumeSettle(nl, t.currentStep)
                ELSE Yield(nl, <<>>, <<>>)
       IN /\ nl' = y.n
          /\ messages' = SendIntermediate(nl.muted, messages, y.out, now)
          /\ completionTimers' = completionTimers \o y.completion
    /\ resumeTimers' = Tail(resumeTimers)
    /\ UNCHANGED <<now, calls, sink, ma, h, otherThanDemo>>

\* The first completion timeout fires: the completion narration is sent,
\* and the timeout that calls onAnswer is set.
CompletionNarrate(i) ==
    /\ i \in 1..Len(completionTimers)
    /\ completionTimers[i].phase = 1
    /\ LET t == completionTimers[i]
           m == Narration(IF t.demoMode THEN "great" ELSE "excellent", t.result)
       IN /\ nl' = IF nl.mounted /\ nl.sid = t.sid THEN Collect(nl, m) ELSE nl
          /\ messages' = SendIntermediate(t.muted, messages, <<m>>, now)
          /\ completionTimers' = [completionTimers EXCEPT ![i].phase = 2]
    /\ UNCHANGED <<now, resumeTimers, calls, sink, ma, h, otherThanDemo>>

\* The second completion timeout fires: onAnswer(result, messageHistory),
\* which is ToolDisplay's handleToolResponse of the session that rendered
\* the instance.
CompletionDeliver(i) ==
    /\ i \in 1..Len(completionTimers)
    /\ completionTimers[i].phase = 2
    /\ LET t == completionTimers[i]
       IN /\ SetSinkState(HandleToolResponse(SinkState, t.sid,
                  IF t.demoMode THEN "demonstrate_number_line" ELSE "number_line",
                  t.problem, t.result, t.messageHistory))
          /\ h' = [LimiterCalled(h) EXCEPT
                        !.handed = Append(@, [sid |-> t.sid,
                                result |-> t.result,
                                messageHistory |-> t.messageHistory,
                                narrated |-> Narrations(messages)])]
    /\ completionTimers' = RemoveAt(completionTimers, i)
    /\ UNCHANGED <<now, nl, resumeTimers, otherThanDemo>>

\* ------------------------------------------------------ tool sessions
\* An activation that keeps the session it finds
KeepActiveTool(active, config) == IF active.type = "none" THEN config ELSE active

\* The regular expressions of DANGEROUS_PATTERNS are shared by all calls:
\* each keeps its lastIndex.  No expression has been put to the validator.
NoVerdict == [isValid |-> FALSE, errors |-> <<"none">>]
NoValidator ==
    [expression |-> <<>>, lastIndex |-> [k \in 1..6 |-> 0], calls |-> 0,
     others |-> 0, first |-> NoVerdict, last |-> NoVerdict]

\* useState initial values of ToolProvider: demoState, isDemoPaused
InitProvider == [demoState |-> NoSaved, isDemoPaused |-> FALSE]

\* ToolProvider.setActiveTool: setActiveToolConfig(config)
SetActiveTool(active, config) == config

\* The handler of the action demonstrate_number_line: the demo is marked
\* active at once, the activation waits for its timeout.  The respond
\* closure built here is the session sessionCount + 1.
DemonstrateNumberLine(problem) ==
    /\ sessionCount < MaxSessions
    /\ sessionCount' = sessionCount + 1
    /\ ma' = [ma EXCEPT !.activeDemoType = "demonstrate_number_line"]
    /\ pendingTools' = Append(pendingTools,
            ToolConfig("demonstrate_number_line", sessionCount + 1, problem,
                       OperationOf(problem), ma.isDemoInterrupted))
    /\ h' = [h EXCEPT !.demoStartLen = Len(messages)]
    /\ UNCHANGED <<now, messages, activeToolConfig, nl, resumeTimers,
                   completionTimers, calc, calls, sink, det, thinkTimers,
                   validationVars>>

\* The handler of the action open_calculator
OpenCalculator ==
    /\ sessionCount < MaxSessions
    /\ sessionCount' = sessionCount + 1
    /\ pendingTools' = Append(pendingTools,
            ToolConfig("calculator", sessionCount + 1, Problem(0, "*", 0),
                       "addition", ma.isDemoInterrupted))
    /\ UNCHANGED <<now, messages, activeToolConfig, nl, resumeTimers,
                   completionTimers, calc, calls, sink, det, ma, thinkTimers, h,
                   validationVars>>

\* The handler of the action practice_problem; the operation it is given
\* only selects the hint and the colour.
PracticeProblem(problem) ==
    /\ sessionCount < MaxSessions
    /\ sessionCount' = sessionCount + 1
    /\ pendingTools' = Append(pendingTools,
            ToolConfig("practice_problem", sessionCount + 1, problem,
                       OperationOf(problem), ma.isDemoInterrupted))
    /\ UNCHANGED <<now, messages, activeToolConfig, nl, resumeTimers,
                   completionTimers, calc, calls, sink, det, ma, thinkTimers, h,
                   validationVars>>

\* The activation timeout of a handler fires: activateToolWithDemo, then
\* ToolDisplay renders the active session's tool under a fresh key, which
\* unmounts the tool it showed.
ActivationFires ==
    /\ pendingTools # <<>>
    /\ LET config == Head(pendingTools)
           active == SetActiveTool(activeToolConfig, config)
           y == IF RendersNumberLine(active.type) THEN Mount(active)
                ELSE Yield(NoInstance, <<>>, <<>>)
       IN /\ activeToolConfig' = active
          /\ nl' = y.n
          /\ calc' = IF active.type = "calculator"
                     THEN [NoCalc EXCEPT !.mounted = TRUE, !.sid = active.sid]
                     ELSE NoCalc
          /\ practice' = IF active.type = "practice_problem"
                         THEN InitialPractice(active) ELSE NoPractice
          /\ validationCallbacks' =
                Remounted(validationCallbacks, practice, practice')
          /\ messages' = SendIntermediate(active.muted, messages, y.out, now)
          /\ completionTimers' = completionTimers \o y.completion
          /\ ma' = IF IsDemoType(config.type)
                   THEN [ma EXCEPT !.activeDemoType = config.type] ELSE ma
    /\ pendingTools' = Tail(pendingTools)
    /\ h' = [h EXCEPT !.replaced = @ + (IF activeToolConfig.type = "none" THEN 0 ELSE 1)]
    /\ UNCHANGED <<now, sessionCount, resumeTimers, calls, sink, det, thinkTimers,
                   gradingCalls, submitTimers, grader, classifier, provider,
        validator>>

\* The close button of ToolDisplay: ToolProvider.clearActiveTool
ClearActiveTool ==
    /\ activeToolConfig.type # "none"
    /\ activeToolConfig' = NoTool
    /\ provider' = InitProvider
    /\ nl' = NoInstance
    /\ calc' = NoCalc
    /\ practice' = NoPractice
    /\ validationCallbacks' = Remounted(validationCallbacks, practice, NoPractice)
    /\ UNCHANGED <<now, messages, sessionCount, pendingTools, resumeTimers,
                   completionTimers, calls, sink, det, ma, thinkTimers, h,
                   gradingCalls, submitTimers, grader, classifier,
                   validator>>

\* -------------------------------------------------- VisualCalculator
\* eval of an expression "<x> <op> <y>"; the quotients taken are whole,
\* or by zero
Eval(expression) ==
    IF expression.op = "+" THEN expression.x + expression.y
    ELSE IF expression.op = "-" THEN expression.x - expression.y
    ELSE IF expression.op = "/"
    THEN IF expression.y # 0 THEN expression.x \div expression.y
         ELSE IF expression.x = 0 THEN NaN ELSE Infinity
    ELSE expression.x * expression.y

calcUnchanged == <<now, activeToolConfig, sessionCount, pendingTools, nl,
                   resumeTimers, completionTimers, det, thinkTimers, validationVars>>

\* The learner keys in an expression: handleNumber, handleOperator,
\* handleNumber
CalcKeys(expression) ==
    /\ calc.mounted
    /\ ~calc.hasExpression \/ calc.isResult
    /\ calc' = [calc EXCEPT !.hasExpression = TRUE, !.expression = expression,
                           !.display = expression.y, !.isResult = FALSE]
    /\ UNCHANGED <<calls, sink, messages, ma, h>>
    /\ UNCHANGED calcUnchanged

\* '=': handleCalculate.  With no expression eval yields undefined and the
\* catch branch shows Error.
HandleCalculate ==
    /\ calc.mounted
    /\ h' = [(IF calc.hasExpression THEN LimiterCalled(h) ELSE h)
                EXCEPT !.submits = @ + 1]
    /\ IF calc.hasExpression
       THEN LET result == Eval(calc.expression)
            IN /\ calc' = [calc EXCEPT !.display = result, !.isResult = TRUE]
               /\ SetSinkState(HandleToolResponse(SinkState, calc.sid,
                      "calculator", calc.expression, result, <<>>))
       ELSE /\ calc' = [calc EXCEPT !.display = NoNumber]
            /\ UNCHANGED <<calls, sink, messages, ma>>
    /\ UNCHANGED calcUnchanged

\* 'Send to Teacher', shown while isResult:
\* onCalculate(expression, parseFloat(display))
SendToTeacher ==
    /\ calc.mounted /\ calc.isResult
    /\ h' = [LimiterCalled(h) EXCEPT !.submits = @ + 1]
    /\ SetSinkState(HandleToolResponse(SinkState, calc.sid, "calculator",
                                       calc.expression, calc.display, <<>>))
    /\ UNCHANGED calc
    /\ UNCHANGED calcUnchanged

\* --------------------------------------------------- ProblemPractice
practiceUnchanged == <<now, activeToolConfig, sessionCount, pendingTools, nl,
                       resumeTimers, completionTimers, calc, det, thinkTimers,
                       grader, classifier, provider,
        validator>>

\* onChange of the answer field, which is disabled while a validation is
\* in progress; the callback effect runs again for the new answer.
PracticeType(user_input) ==
    /\ practice.mounted
    /\ ~practice.validationInProgress
    /\ user_input # practice.answer
    /\ practice' = [practice EXCEPT
            !.answer = user_input,
            !.showValidationFeedback =
                IF practice.hasValidated THEN FALSE ELSE @,
            !.lastValidationResult =
                IF practice.hasValidated THEN NoResult ELSE @]
    /\ validationCallbacks' =
            RegisterCallback(
                UnregisterCallback(validationCallbacks,
                    CallbackKey("practice_problem", practice.problem)),
                PracticeCallback(practice'))
    /\ UNCHANGED <<messages, calls, sink, ma, h, gradingCalls, submitTimers>>
    /\ UNCHANGED practiceUnchanged

\* The button that hides the feedback
DismissFeedback ==
    /\ practice.mounted
    /\ practice.showValidationFeedback /\ practice.stepFeedback # "none"
    /\ ~practice.validationInProgress
    /\ practice' = [practice EXCEPT !.showValidationFeedback = FALSE]
    /\ UNCHANGED <<messages, calls, sink, ma, h, validationCallbacks,
                   gradingCalls, submitTimers>>
    /\ UNCHANGED practiceUnchanged

\* handleCheckAnswer and handleSubmit: validateAnswer(answer.trim()) up to
\* its await.  The buttons and the field are disabled while a validation
\* is in progress.
ValidateAnswer ==
    /\ practice.mounted
    /\ practice.answer # NoInput
    /\ ~practice.validationInProgress
    /\ practice' = [practice EXCEPT !.validationInProgress = TRUE,
                                    !.showValidationFeedback = FALSE,
                                    !.hasValidated = TRUE]
    /\ gradingCalls' = Append(gradingCalls,
            GradingCall("ui", practice.sid, "practice_problem", practice.problem,
                        AnswerData(practice.answer, practice.stepNumber)))
    /\ h' = [h EXCEPT !.gradings = @ + 1]
    /\ UNCHANGED <<messages, calls, sink, ma, validationCallbacks, submitTimers>>
    /\ UNCHANGED practiceUnchanged

\* The handler of the action validate_learning_step up to its await
ValidateLearningStep(tool_type, problem, validation_data) ==
    /\ gradingCalls' = Append(gradingCalls,
            GradingCall("action", 0, tool_type, problem, validation_data))
    /\ h' = [h EXCEPT !.gradings = @ + 1]
    /\ UNCHANGED <<messages, calls, sink, ma, validationCallbacks, practice,
                   submitTimers>>
    /\ UNCHANGED practiceUnchanged

\* The oldest grading call returns (every call takes the same 200 ms):
\* the rest of triggerValidation or of the action's handler, then the
\* rest of validateAnswer in the instance that called.
GradingReturns ==
    /\ gradingCalls # <<>>
    /\ LET call == Head(gradingCalls)
           graded == ProcessValidationLocally(call.tool_type, call.problem, call.data)
           result == IF graded.thrown /\ call.origin = "action"
                     THEN FallbackResult ELSE graded
           found == IF result.thrown THEN {}
                    ELSE GetCallback(validationCallbacks,
                                     CallbackKey(call.tool_type, call.problem))
           called == {c \in found : practice.mounted /\ practice.sid = c.sid}
           p1 == IF called # {} THEN ApplyResult(practice, result) ELSE practice
           timers == IF found # {} /\ result.is_correct
                     THEN <<SubmitTimer(CHOOSE c \in found : TRUE)>> ELSE <<>>
           caller == call.origin = "ui" /\ p1.mounted /\ p1.sid = call.sid
           p2 == IF ~caller THEN p1
                 ELSE IF result.thrown THEN PracticeFallback(p1)
                 ELSE IF ~result.is_correct
                 THEN [p1 EXCEPT !.stepNumber = @ + 1]
                 ELSE p1
       IN /\ practice' = p2
          /\ submitTimers' = submitTimers \o timers
    /\ gradingCalls' = Tail(gradingCalls)
    /\ UNCHANGED <<messages, calls, sink, ma, h, validationCallbacks>>
    /\ UNCHANGED practiceUnchanged

\* The oldest submission timeout fires: onSubmit(numericAnswer), which is
\* ToolDisplay's handleToolResponse of the session that rendered the
\* instance, then the field is emptied.
SubmitTimerFires ==
    /\ submitTimers # <<>>
    /\ LET t == Head(submitTimers)
       IN /\ SetSinkState(HandleToolResponse(SinkState, t.sid,
                  "practice_problem", t.problem,
                  WholeNumber(t.numericAnswer), <<>>))
          /\ IF practice.mounted /\ practice.sid = t.sid
             THEN /\ practice' = [practice EXCEPT !.answer = NoInput,
                                          !.showValidationFeedback = FALSE]
                  /\ validationCallbacks' =
                        RegisterCallback(
                            UnregisterCallback(validationCallbacks,
                                CallbackKey("practice_problem", practice.problem)),
                            PracticeCallback(practice'))
             ELSE UNCHANGED <<practice, validationCallbacks>>
    /\ submitTimers' = Tail(submitTimers)
    /\ h' = LimiterCalled(h)
    /\ UNCHANGED gradingCalls
    /\ UNCHANGED practiceUnchanged

\* Time passes
ClockAdvances(ms) ==
    /\ now' = now + ms
    /\ h' = [h EXCEPT !.clockSteps = @ + 1]
    /\ UNCHANGED <<messages, activeToolConfig, sessionCount, pendingTools, nl,
                   resumeTimers, completionTimers, calc, calls, sink, det, ma,
                   thinkTimers, validationVars>>

\* ------------------------------------------------ the session manager
\* The application after its first render: no tool, an empty transcript
AppIdle ==
    /\ now = 0
    /\ messages = <<>>
    /\ activeToolConfig = NoTool
    /\ sessionCount = 0
    /\ pendingTools = <<>>
    /\ nl = NoInstance
    /\ resumeTimers = <<>>
    /\ completionTimers = <<>>
    /\ calc = NoCalc
    /\ calls = <<>>
    /\ sink = <<>>
    /\ det = InitDet
    /\ ma = InitMa
    /\ thinkTimers = 0
    /\ h = InitH
    /\ ValidationIdle

AppInit ==
    AppIdle /\ grader = NoGrader /\ classifier = NoClassifier /\ provider = InitProvider
        /\ validator = NoValidator

CalcExpressions == {Problem(x, "+", 1) : x \in 1..MaxCalcA}

\* The demos of the session manager are the shortest ones
SessionProblems == {Problem(1, "+", 0)}

SessionNext ==
    \/ \E problem \in SessionProblems : DemonstrateNumberLine(problem)
    \/ OpenCalculator
    \/ ActivationFires
    \/ ClearActiveTool
    \/ DemoTick
    \/ \E i \in 1..Len(completionTimers) : CompletionNarrate(i)
    \/ \E i \in 1..Len(completionTimers) : CompletionDeliver(i)
    \/ \E expression \in CalcExpressions : CalcKeys(expression)
    \/ h.submits < MaxSubmits /\ HandleCalculate
    \/ h.submits < MaxSubmits /\ SendToTeacher

SessionSpec == AppInit /\ [][SessionNext]_vars

\* The tool instances that are mounted belong to the active session, and
\* no two are mounted.
OnlyActiveSessionMounted ==
    /\ nl.mounted => nl.sid = activeToolConfig.sid
    /\ calc.mounted => calc.sid = activeToolConfig.sid
    /\ ~(nl.mounted /\ calc.mounted)

\* C1: an activation installs the session that was activated as the
\* active one and invokes no completion callback, whatever session it
\* replaces; and in every state the mounted tool is the tool of the one
\* active session.
C1_LatestWins ==
    [][/\ (Len(pendingTools') < Len(pendingTools)) =>
            /\ activeToolConfig' = Head(pendingTools)
            /\ sink' = sink
       /\ OnlyActiveSessionMounted']_vars

\* A second session has replaced an active first one, and no completion
\* callback has been invoked.
C1_Witness ==
    /\ h.replaced > 0
    /\ activeToolConfig.sid = 2
    /\ sink = <<>>

\* C2 (as the specification states it): no session's completion callback
\* is invoked twice.
C2_RespondAtMostOnce ==
    \A i, j \in 1..Len(sink) : sink[i].sid = sink[j].sid => i = j

\* C3 (as the specification states it): a step that invokes a completion
\* callback invokes the one of the session that is active.
C3_NoRespondAfterCloseOrReplace ==
    [][Len(sink') > Len(sink) => Last(sink').sid = activeToolConfig.sid]_vars

\* C24 (as the specification states it): every pending settle or
\* completion timeout belongs to the NumberLine that is mounted: closing
\* or replacing a demo leaves none of its timeouts behind to fire.
C24_CancelClearsTimers ==
    /\ \A i \in 1..Len(completionTimers) :
            nl.mounted /\ completionTimers[i].sid = nl.sid
    /\ \A i \in 1..Len(resumeTimers) :
            nl.mounted /\ resumeTimers[i].sid = nl.sid

\* ------------------------------------------- the callers of the graders
AllOps == {"+", "-", "*", "/", "×", "÷"}

\* The problems graded: all small ones, and "5 + 3" and "12 / 4"
GraderProblems ==
    {Problem(x, op, y) : x \in 0..MaxGradeA, op \in AllOps, y \in 0..MaxGradeB}
        \cup {Problem(5, "+", 3), Problem(12, "/", 4)}

\* The steps proposed for a problem: around its progression
ProposedSteps(problem) ==
    (problem.x - problem.y - 2)..(problem.x + problem.y + 2)

\* The answers typed: nothing, a text, and numbers on and around the
\* whole numbers
AnswerInputs ==
    {NoInput, TextInput}
        \cup {NumberInput(Thousandths(n) + d) :
                 n \in (0..MaxAnswer) \cup {8},
                 d \in {0, 5, 0 - 5, 15, 333, 500}}

GraderInit ==
    /\ AppIdle
    /\ classifier = NoClassifier
    /\ provider = InitProvider
    /\ validator = NoValidator
    /\ \E tool_type \in {"number_line", "practice_problem"},
          problem \in GraderProblems :
            grader = [NoGrader EXCEPT !.tool_type = tool_type,
                                      !.problem = problem]

graderUnchanged ==
    <<now, messages, activeToolConfig, sessionCount, pendingTools, nl,
      resumeTimers, completionTimers, calc, calls, sink, det, ma,
      thinkTimers, h, validationCallbacks, gradingCalls, practice,
      submitTimers, classifier, provider,
        validator>>

\* A caller of the sequential-step grader proposes a step; an accepted
\* step is a prior step of the next call.
GradeStep(proposed_step) ==
    /\ grader.tool_type = "number_line"
    /\ grader.calls < MaxGradeCalls
    /\ LET data == StepData(grader.current_steps, proposed_step)
           result == ProcessValidationLocally("number_line", grader.problem, data)
       IN grader' = [grader EXCEPT
                        !.calls = @ + 1,
                        !.data = data,
                        !.result = result,
                        !.current_steps = IF result.is_correct
                                          THEN Append(@, proposed_step) ELSE @]
    /\ UNCHANGED graderUnchanged

\* A caller of the final-answer grader submits an answer; its step counter
\* counts the attempts found incorrect (ProblemPractice.validateAnswer).
GradeAnswer(user_input) ==
    /\ grader.tool_type = "practice_problem"
    /\ grader.calls < MaxGradeCalls
    /\ LET data == AnswerData(user_input, grader.step_number)
           result == ProcessValidationLocally("practice_problem", grader.problem, data)
       IN grader' = [grader EXCEPT
                        !.calls = @ + 1,
                        !.data = data,
                        !.result = result,
                        !.step_number = IF ~result.thrown /\ ~result.is_correct
                                        THEN @ + 1 ELSE @]
    /\ UNCHANGED graderUnchanged

GraderNext ==
    \/ \E proposed_step \in ProposedSteps(grader.problem) : GradeStep(proposed_step)
    \/ \E user_input \in AnswerInputs : GradeAnswer(user_input)

GraderSpec == GraderInit /\ [][GraderNext]_vars

\* ------------------------------------------- properties of the graders
\* The progression a, a op 1, ..., a op b of a number line problem
Progression(problem) ==
    [i \in 1..(problem.y + 1) |->
        IF problem.op = "+" THEN problem.x + (i - 1) ELSE problem.x - (i - 1)]

IsPrefix(s, t) == Len(s) <= Len(t) /\ \A i \in 1..Len(s) : s[i] = t[i]

\* The caller's last call was a call of the sequential-step grader on a
\* problem it parses
StepGraded ==
    /\ grader.tool_type = "number_line"
    /\ grader.problem.op \in {"+", "-"}
    /\ grader.calls > 0

\* C14 (as the specification states it): the steps accepted so far are
\* the first steps of the progression a, a op 1, ..., a op b, and a step
\* is accepted exactly when it is the next step of that progression.
C14_AcceptsExactlyProgression ==
    (grader.tool_type = "number_line" /\ grader.problem.op \in {"+", "-"}) =>
        /\ IsPrefix(grader.current_steps, Progression(grader.problem))
        /\ grader.calls > 0 =>
              LET k == Len(grader.data.current_steps)
              IN grader.result.is_correct <=>
                    /\ k <= grader.problem.y
                    /\ grader.data.proposed_step = Progression(grader.problem)[k + 1]

\* C15 (as the specification states it): a proposed step that equals
\* expectedNext is Correct; it is reported as completing the problem, with
\* final_answer = first op second, exactly when it is the b-th step after
\* the start, and otherwise with remaining_steps = the steps still to take
\* after it; "5 + 3", prior steps [5], proposed 6 has remaining_steps 2.
C15_CompletionAndRemaining ==
    (/\ StepGraded
     /\ grader.data.current_steps # <<>>
     /\ grader.data.proposed_step =
           Last(grader.data.current_steps)
              + (IF grader.problem.op = "+" THEN 1 ELSE 0 - 1))
    => LET taken == Len(grader.data.current_steps)
           r == grader.result
       IN /\ r.result = "correct" /\ r.is_correct
          /\ IF taken = grader.problem.y
             THEN /\ r.problem_completed
                  /\ r.final_answer = Last(Progression(grader.problem))
             ELSE /\ ~r.problem_completed
                  /\ r.remaining_steps = grader.problem.y - taken
          /\ (/\ grader.problem = Problem(5, "+", 3)
              /\ grader.data.current_steps = <<5>>) => r.remaining_steps = 2

\* v thousandths are within 0.01 of x op y
WithinHundredth(v, problem) ==
    CASE problem.op = "+" -> Abs(v - Thousandths(problem.x + problem.y)) < 10
      [] problem.op = "-" -> Abs(v - Thousandths(problem.x - problem.y)) < 10
      [] problem.op = "*" -> Abs(v - Thousandths(problem.x * problem.y)) < 10
      [] problem.op = "/" ->
            /\ problem.y # 0
            /\ Abs(v * problem.y - Thousandths(problem.x)) < 10 * problem.y

\* answer is x op y
IsValueOf(answer, problem) ==
    CASE problem.op = "+" -> answer.num = (problem.x + problem.y) * answer.den
      [] problem.op = "-" -> answer.num = (problem.x - problem.y) * answer.den
      [] problem.op = "*" -> answer.num = (problem.x * problem.y) * answer.den
      [] problem.op = "/" -> answer.num * problem.y = problem.x * answer.den

\* The caller's last call was a call of the final-answer grader
AnswerGraded ==
    /\ grader.tool_type = "practice_problem"
    /\ grader.calls > 0

\* C16: on a parseable problem and a numeric input the final-answer
\* grader returns Correct (celebration, correct_answer = x op y) iff the
\* input is within 0.01 of x op y; otherwise not_adding when op is '+'
\* and the input is x or y; otherwise the generic Incorrect that reveals
\* correct_answer, gentle when the caller's step counter is 1 and specific
\* afterwards.  "12 / 4": 3 is Correct with correct_answer 3, 8 is the
\* generic Incorrect with correct_answer 3.
C16_FinalAnswerDecision ==
    (/\ AnswerGraded
     /\ grader.problem.op \in {"+", "-", "*", "/"}
     /\ grader.data.user_input.kind = "number")
    => LET v == grader.data.user_input.value
           problem == grader.problem
           r == grader.result
       IN /\ ~r.thrown
          /\ r.is_correct <=> WithinHundredth(v, problem)
          /\ r.is_correct =>
                /\ r.result = "correct" /\ r.guidance_level = "celebration"
                /\ IsValueOf(r.correct_answer, problem)
          /\ ~r.is_correct =>
                /\ r.result = "incorrect"
                /\ IF /\ problem.op = "+"
                      /\ v \in {Thousandths(problem.x), Thousandths(problem.y)}
                   THEN r.mistake_type = "not_adding"
                   ELSE /\ r.mistake_type = "incorrect_calculation"
                        /\ IsValueOf(r.correct_answer, problem)
                        /\ r.correct_answer # NoAnswer
                        /\ r.guidance_level =
                              IF grader.data.step_number = 1
                              THEN "gentle" ELSE "specific"
          /\ (problem = Problem(12, "/", 4) /\ v = Thousandths(3)) =>
                r.is_correct /\ r.correct_answer = Fraction(12, 4)
          /\ (problem = Problem(12, "/", 4) /\ v = Thousandths(8)) =>
                /\ r.mistake_type = "incorrect_calculation"
                /\ r.correct_answer = Fraction(12, 4)

\* "12 / 4" has been answered with 8 on a later attempt than the first
C16_Witness ==
    /\ AnswerGraded
    /\ grader.problem = Problem(12, "/", 4)
    /\ grader.data.user_input = NumberInput(Thousandths(8))
    /\ grader.data.step_number > 1
    /\ grader.result.mistake_type = "incorrect_calculation"

\* C17 (as the specification states it): the final-answer grader fails
\* on every unparseable problem whatever the input; on a parseable problem
\* an empty input yields needs_guidance and an input that is no number
\* yields Incorrect with invalid_input.
C17_FailureCases ==
    AnswerGraded =>
        LET parseable == grader.problem.op \in {"+", "-", "*", "/"}
            input == grader.data.user_input
            r == grader.result
        IN /\ ~parseable => r.thrown
           /\ (parseable /\ input.kind = "empty") =>
                 ~r.thrown /\ r.result = "needs_guidance"
           /\ (parseable /\ input.kind = "text") =>
                 /\ ~r.thrown
                 /\ r.result = "incorrect"
                 /\ r.mistake_type = "invalid_input"

\* cleaned.replace(/×/g, '*').replace(/÷/g, '/')
Normalized(problem) ==
    [problem EXCEPT !.op = IF @ = "×" THEN "*" ELSE IF @ = "÷" THEN "/" ELSE @]

\* C22 (as the specification states it): the result of grading a practice
\* problem is the result of grading the problem with × written as * and
\* ÷ written as /.
C22_GlyphsNormalized ==
    (grader.tool_type = "practice_problem" /\ grader.calls > 0) =>
        grader.result = ProcessValidationLocally("practice_problem",
                            Normalized(grader.problem), grader.data)

\* A step proposed after at least one prior step that is not the next
\* number of the count
WrongStepGraded ==
    /\ StepGraded
    /\ Len(grader.data.current_steps) > 0
    /\ grader.data.proposed_step # Last(grader.data.current_steps)
            + (IF grader.problem.op = "+" THEN 1 ELSE 0 - 1)

\* C30: a step that differs from expectedNext is skipping_numbers when
\* the operator is + and it lies beyond expectedNext, wrong_direction
\* when the operator is + and it lies before the last position, and
\* incorrect_sequence otherwise, which is every wrong step of a
\* subtraction and the repeated last position of an addition; the hint
\* names expectedNext.
C30_MistakeClassification ==
    WrongStepGraded =>
        LET last == Last(grader.data.current_steps)
            proposed == grader.data.proposed_step
            adding == grader.problem.op = "+"
            expected == IF adding THEN last + 1 ELSE last - 1
        IN /\ ~grader.result.is_correct
           /\ grader.result.result = "incorrect"
           /\ grader.result.hint = expected
           /\ (adding /\ proposed > expected)
                 => grader.result.mistake_type = "skipping_numbers"
           /\ (adding /\ proposed < last)
                 => grader.result.mistake_type = "wrong_direction"
           /\ (adding /\ proposed = last)
                 => grader.result.mistake_type = "incorrect_sequence"
           /\ ~adding => grader.result.mistake_type = "incorrect_sequence"

\* An addition with two steps taken was told that a step before the last
\* position goes in the wrong direction.
C30_Witness ==
    /\ WrongStepGraded
    /\ grader.problem.op = "+"
    /\ Len(grader.data.current_steps) >= 2
    /\ grader.data.proposed_step < Last(grader.data.current_steps)
    /\ grader.result.mistake_type = "wrong_direction"

GuidanceLevels == {"gentle", "specific", "encouraging", "celebration"}

\* C33 (as the specification states it): every result a grader returns
\* has its guidance_level among gentle, specific, encouraging and
\* celebration.
C33_GuidanceLevelInRange ==
    (grader.calls > 0 /\ ~grader.result.thrown) =>
        grader.result.guidance_level \in GuidanceLevels

\* ------------------------------------------- the limiter of submissions
\* A calculator has just been activated in a fresh application
CalcInit ==
    /\ now = 0
    /\ messages = <<>>
    /\ activeToolConfig = ToolConfig("calculator", 1, Problem(0, "*", 0),
                                     "addition", FALSE)
    /\ sessionCount = 1
    /\ pendingTools = <<>>
    /\ nl = NoInstance
    /\ resumeTimers = <<>>
    /\ completionTimers = <<>>
    /\ calc = [NoCalc EXCEPT !.mounted = TRUE, !.sid = 1]
    /\ calls = <<>>
    /\ sink = <<>>
    /\ det = InitDet
    /\ ma = InitMa
    /\ thinkTimers = 0
    /\ h = InitH
    /\ ValidationIdle
    /\ grader = NoGrader
    /\ classifier = NoClassifier
    /\ provider = InitProvider
    /\ validator = NoValidator

\* The steps of the clock: together they reach one millisecond before
\* the end of a window, its end, and one millisecond after
ClockSteps == {1, WINDOW_MS - 1}

\* The learner keys in one expression
LimiterExpressions == {Problem(1, "+", 1)}

LimiterNext ==
    \/ \E expression \in LimiterExpressions : CalcKeys(expression)
    \/ h.submits < MaxSubmissions /\ HandleCalculate
    \/ h.submits < MaxSubmissions /\ SendToTeacher
    \/ \E ms \in ClockSteps : h.clockSteps < MaxClockSteps /\ ClockAdvances(ms)

LimiterSpec == CalcInit /\ [][LimiterNext]_vars

\* The admissions of a log of isAllowed calls that lie within the window
\* before its call i
AdmissionsBefore(log, i) ==
    {j \in 1..(i - 1) : log[j].allowed /\ log[i].t - log[j].t < 30000}

\* The times at which the outcome of a call after time t can differ for
\* the limiter states cs: around t, a window after it, and a window
\* after each recorded call
LaterTimes(cs, t) ==
    {u \in {t + d : d \in {0, 1, WINDOW_MS - 1, WINDOW_MS, WINDOW_MS + 1}}
            \cup {cs[i] + WINDOW_MS : i \in 1..Len(cs)} : u >= t}

\* The limiter states cs and ds answer every later call alike
SameLater(cs, ds, t) ==
    \A u \in LaterTimes(cs \o ds, t) :
        /\ IsAllowed(cs, u) = IsAllowed(ds, u)
        /\ GetRemainingCalls(cs, u) = GetRemainingCalls(ds, u)

C18_AdmitsFivePerWindow ==
    LET log == h.limiter
    IN /\ \A i \in 1..Len(log) :
            /\ i > 1 => log[i - 1].t <= log[i].t
            /\ log[i].allowed <=> Cardinality(AdmissionsBefore(log, i)) < 5
            /\ Cardinality({j \in 1..i : log[j].allowed
                                         /\ log[i].t - log[j].t < 30000}) <= 5
            /\ (\A j \in 1..(i - 1) : log[i].t - log[j].t >= 30000)
                  => log[i].allowed
       /\ \A i \in 1..Len(log) :
            (i + 5 <= Len(log) /\ log[i + 5].t = log[i].t
                /\ AdmissionsBefore(log, i) = {})
            => /\ \A j \in i..(i + 4) : log[j].allowed
               /\ ~log[i + 5].allowed

\* A burst of six calls had five admitted and the sixth rejected, and a
\* later call, made when the window of the burst had passed, was admitted.
C18_Witness ==
    LET log == h.limiter
    IN /\ Len(log) >= 7
       /\ \A j \in 1..5 : log[j].allowed
       /\ log[6].t = log[1].t /\ ~log[6].allowed
       /\ log[7].allowed /\ log[7].t - log[1].t = 30000

\* ------------------------------------------- practice problems graded
\* The practice problems shown: one the grader parses, one written with
\* the glyph it does not parse
GradingProblems == {Problem(1, "+", 1), Problem(1, "×", 1)}

\* What the learner types: the answer, another number, nothing
GradingAnswers == {NumberInput(Thousandths(2)), NumberInput(Thousandths(1)), NoInput}

\* What the action validate_learning_step is called with
ActionAnswers == {NumberInput(Thousandths(2)), NumberInput(Thousandths(1))}

GradingNext ==
    \/ \E problem \in GradingProblems : PracticeProblem(problem)
    \/ ActivationFires
    \/ ClearActiveTool
    \/ \E user_input \in GradingAnswers : PracticeType(user_input)
    \/ DismissFeedback
    \/ h.gradings < MaxGradings /\ ValidateAnswer
    \/ \E problem \in GradingProblems, user_input \in ActionAnswers :
          /\ h.gradings < MaxGradings
          /\ ValidateLearningStep("practice_problem", problem,
                                  AnswerData(user_input, 1))
    \/ GradingReturns
    \/ SubmitTimerFires

GradingSpec == AppInit /\ [][GradingNext]_vars

\* The oldest grading call returns in this step
Returns == gradingCalls # <<>> /\ gradingCalls' = Tail(gradingCalls)

\* The instance that made a grading call is still the one shown
CallerMounted(call) ==
    call.origin = "ui" /\ practice.mounted /\ practice.sid = call.sid

\* C12: when a grading call returns whose instance has been replaced or
\* closed, the result is applied to no instance: the instance shown keeps
\* its state and no submission is scheduled.
C12_StaleResultDropped ==
    [][(/\ Returns
        /\ Head(gradingCalls).origin = "ui"
        /\ ~CallerMounted(Head(gradingCalls)))
       => /\ practice' = practice
          /\ submitTimers' = submitTimers]_vars

\* The outstanding grading calls of the instance shown: the ones it made,
\* and the ones the action made for its tool type and problem
OutstandingOf(p) ==
    {i \in 1..Len(gradingCalls) :
        \/ CallerMounted(gradingCalls[i])
        \/ /\ gradingCalls[i].origin = "action"
           /\ p.mounted
           /\ gradingCalls[i].tool_type = "practice_problem"
           /\ gradingCalls[i].problem = p.problem}

\* C13: at most one grading call is outstanding for the instance shown,
\* whether the tool or the action validate_learning_step made it.
C13_OneOutstandingCall == Cardinality(OutstandingOf(practice)) <= 1

\* A grading call made by the instance shown fails on return
FailsForCaller ==
    /\ Returns
    /\ CallerMounted(Head(gradingCalls))
    /\ ProcessValidationLocally(Head(gradingCalls).tool_type,
                                Head(gradingCalls).problem,
                                Head(gradingCalls).data).thrown

\* C19: when a grading call of the instance shown fails, the in-flight
\* flag is cleared, the fallback message is shown, and the answer is
\* treated as correct: its submission is scheduled.
C19_FailedGradingIsPermissive ==
    [][FailsForCaller
       => /\ ~practice'.validationInProgress
          /\ practice'.stepFeedback = "fallback"
          /\ practice'.showValidationFeedback
          /\ Len(submitTimers') > Len(submitTimers)]_vars

\* Every submission that is scheduled, and with it every call of onSubmit,
\* is for a problem the grader parses: a practice problem it does not
\* parse is never completed.
C19_UngradableNeverCompleted ==
    \A i \in 1..Len(submitTimers) : submitTimers[i].problem.op \in PracticeOps

\* ------------------------------------- submissions of a practice problem
PracticeConfig(sid, problem) ==
    ToolConfig("practice_problem", sid, problem, OperationOf(problem), FALSE)

\* A practice problem has just been activated in a fresh application
PracticeInit ==
    LET cfg == PracticeConfig(1, Problem(1, "+", 1))
    IN /\ now = 0
       /\ messages = <<>>
       /\ activeToolConfig = cfg
       /\ sessionCount = 1
       /\ pendingTools = <<>>
       /\ nl = NoInstance
       /\ resumeTimers = <<>>
       /\ completionTimers = <<>>
       /\ calc = NoCalc
       /\ calls = <<>>
       /\ sink = <<>>
       /\ det = InitDet
       /\ ma = InitMa
       /\ thinkTimers = 0
       /\ h = InitH
       /\ practice = InitialPractice(cfg)
       /\ validationCallbacks = {PracticeCallback(InitialPractice(cfg))}
       /\ gradingCalls = <<>>
       /\ submitTimers = <<>>
       /\ grader = NoGrader
       /\ classifier = NoClassifier
       /\ provider = InitProvider
       /\ validator = NoValidator

\* The learner types the answer of the problem, or empties the field
SubmissionAnswers == {NumberInput(Thousandths(2)), NoInput}

SubmissionNext ==
    \/ \E user_input \in SubmissionAnswers : PracticeType(user_input)
    \/ h.gradings < MaxChecks /\ ValidateAnswer
    \/ GradingReturns
    \/ SubmitTimerFires

SubmissionSpec == PracticeInit /\ [][SubmissionNext]_vars

\* handleToolResponse is called in this step and the limiter refuses it
Refused ==
    /\ Len(h'.limiter) > Len(h.limiter)
    /\ ~Last(h'.limiter).allowed

\* C20: when the limiter refuses a submission, the completion callback is
\* not invoked, the limiter records no call, and the tool that submitted
\* keeps its state, the entered answer included.
C20_RefusedSubmissionKeepsState ==
    [][Refused
       => /\ sink' = sink
          /\ Len(calls') <= Len(calls)
          /\ \A i \in 1..Len(calls') : \E j \in 1..Len(calls) : calls'[i] = calls[j]
          /\ practice' = practice]_vars

\* ------------------------------------------- DemoInterruptionManager
\* toLowerCase of a word
Lower(word) == IF word = "Why" THEN "why" ELSE word

\* The words a user types: the lexicon entries among them, and a short one
WordChars(word) ==
    CASE Lower(word) = "why" -> 3
      [] Lower(word) = "?" -> 1
      [] Lower(word) = "ok" -> 2
      [] Lower(word) = "continue" -> 8

RECURSIVE TextLength(_)
\* length of the words joined by single spaces
TextLength(text) ==
    IF text = <<>> THEN 0
    ELSE IF Len(text) = 1 THEN WordChars(text[1])
    ELSE WordChars(Head(text)) + 1 + TextLength(Tail(text))

DEMO_KEYWORDS ==
    {"continue", "resume", "next step", "keep going", "proceed", "go on",
     "demo", "demonstration", "show me", "let me see", "continue demo"}

QUESTION_INDICATORS ==
    {"what", "how", "why", "when", "where", "who", "can you", "could you",
     "would you", "will you", "explain", "tell me", "help me", "?"}

QuestionStarters ==
    {"what", "how", "why", "when", "where", "who", "can", "could", "would",
     "will", "is", "are", "do", "does"}

\* message.toLowerCase().includes(k) for some k of the lexicon: an entry
\* occurs in a text when it is one of its words
IncludesSome(text, lexicon) ==
    \E i \in 1..Len(text) : Lower(text[i]) \in lexicon

IsUserQuery(text) ==
    IF TextLength(text) < 3 THEN FALSE
    ELSE IF IncludesSome(text, DEMO_KEYWORDS) THEN FALSE
    ELSE \/ IncludesSome(text, QUESTION_INDICATORS)
         \/ IncludesSome(text, {"?"})
         \/ Len(text) >= 2 /\ Lower(text[1]) \in QuestionStarters

\* isActive, as MathActions renders the manager
IsActive == ma.activeDemoType # "null"

\* The dependencies of the manager's effects have changed since they ran
EffectsPending == det.seen # Len(messages) \/ det.wasActive # IsActive

\* The demo of an instance is running
IsRunning(n) ==
    /\ n.mounted /\ n.demoMode /\ n.numbers.ok
    /\ ~n.isDemoComplete /\ ~n.isDemoPaused /\ ~n.resumeRequested

\* MathActions.handleDemoInterruption, on the state w of an effects pass
HandleDemoInterruption(w, userMessage, t) ==
    LET u == IF w.nl.mounted
             THEN PauseUpdates(w.nl, AnsweringReason(userMessage), t)
             ELSE Yield(w.nl, <<>>, <<>>)
        sent == SendIntermediate(w.nl.muted, w.messages, u.out, t)
    IN [w EXCEPT
           !.ma.isDemoInterrupted = TRUE,
           !.nl = u.n,
           !.messages = SendMessageToChat(sent,
                            Text(FALSE, "ack", 0, NoReason, userMessage), t),
           !.thinkTimers = @ + 1,
           !.h.pauseCalls = @ + (IF w.nl.mounted THEN 1 ELSE 0)]

\* MathActions.handleDemoResume, on the state w of an effects pass
HandleDemoResume(w, t) ==
    LET u == IF w.nl.mounted THEN ResumeUpdates(w.nl)
             ELSE [n |-> w.nl, out |-> <<>>, timers |-> <<>>]
        sent == SendIntermediate(w.nl.muted, w.messages, u.out, t)
    IN [w EXCEPT
           !.ma.isDemoInterrupted = FALSE,
           !.nl = u.n,
           !.messages = SendMessageToChat(sent, Plain("letsContinue"), t),
           !.resumeTimers = @ \o u.timers,
           !.h.resumeCalls = @ + (IF w.nl.mounted THEN 1 ELSE 0)]

\* The user messages detectInterruption takes for new: in non-blocking
\* mode every message of the transcript is a candidate
NewUserMessages(msgs, d) ==
    SelectSeq(msgs, LAMBDA m :
        /\ m.role = "user"
        /\ m.content.text # <<>>
        /\ (m.createdAt # NoTime => m.createdAt > d.lastMessageTimestamp))

\* Index of the first user query among ms, 0 if there is none
FirstQuery(ms) ==
    LET queries == {i \in 1..Len(ms) : IsUserQuery(ms[i].content.text)}
    IN IF queries = {} THEN 0
       ELSE CHOOSE i \in queries : \A j \in queries : i <= j

Reported(kind, id, w, running, reason) ==
    [kind |-> kind, id |-> id, startLen |-> w.h.demoStartLen,
     running |-> running, reason |-> reason]

\* detectInterruption(messages) of an active, monitoring manager
DetectInterruption(w, msgs, t) ==
    LET new == NewUserMessages(msgs, w.det)
        q == FirstQuery(new)
        w1 == [w EXCEPT !.det.lastProcessedMessageId = new[q].id,
                        !.det.pendingQueries = Append(@, new[q].content.text),
                        !.det.lastMessageTimestamp = t]
        w2 == HandleDemoInterruption(w1, new[q].content.text, t)
        w3 == IF q = 0 THEN w
              ELSE [w2 EXCEPT !.h.reported = Append(@,
                        Reported("interruption", new[q].id, w, IsRunning(w.nl),
                                 w2.nl.pauseReason))]
    IN IF new = <<>> THEN w
       ELSE [w3 EXCEPT !.det.lastProcessedMessageId = Last(new).id,
                       !.det.lastMessageTimestamp = t]

\* The effect that monitors messages for interruptions, after the cleanup
\* of its previous run
MonitorEffect(w, msgs, isActive, t) ==
    IF ~isActive THEN [w EXCEPT !.det.isMonitoring = FALSE]
    ELSE DetectInterruption([w EXCEPT !.det.isMonitoring = TRUE], msgs, t)

\* Indices of the resume requests among the last three messages
ResumeRequests(msgs) ==
    {i \in 1..Len(msgs) :
        /\ i > Len(msgs) - 3
        /\ msgs[i].role = "user"
        /\ msgs[i].content.text # <<>>
        /\ IncludesSome(msgs[i].content.text, DEMO_KEYWORDS)}

\* The effect that handles resume requests
ResumeEffect(w, msgs, isActive, t) ==
    IF isActive /\ ResumeRequests(msgs) # {} /\ w.det.pendingQueries # <<>>
    THEN LET id == CHOOSE i \in ResumeRequests(msgs) :
                       \A j \in ResumeRequests(msgs) : j <= i
             w1 == HandleDemoResume([w EXCEPT !.det.pendingQueries = <<>>], t)
         IN [w1 EXCEPT !.h.reported = Append(@,
                Reported("resume", msgs[id].id, w, IsRunning(w.nl), NoReason))]
    ELSE w

\* The manager's effects run after a render that changed the transcript or
\* isActive; the state updates of the handlers they call are rendered
\* together afterwards.
DetectorEffects ==
    /\ EffectsPending
    /\ LET w0 == [det |-> det, ma |-> ma, nl |-> nl, messages |-> messages,
                  resumeTimers |-> resumeTimers, thinkTimers |-> thinkTimers,
                  h |-> h]
           w1 == MonitorEffect(w0, messages, IsActive, now)
           w2 == ResumeEffect(w1, messages, IsActive, now)
           y == Render(nl, w2.nl)
       IN /\ det' = [w2.det EXCEPT !.seen = Len(messages), !.wasActive = IsActive]
          /\ ma' = w2.ma
          /\ nl' = y.n
          /\ messages' = SendIntermediate(nl.muted, w2.messages, y.out, now)
          /\ completionTimers' = completionTimers \o y.completion
          /\ resumeTimers' = w2.resumeTimers
          /\ thinkTimers' = w2.thinkTimers
          /\ h' = w2.h
    /\ UNCHANGED <<now, activeToolConfig, sessionCount, pendingTools, calc,
                   calls, sink, validationVars>>

\* The learner sends a chat message; its createdAt may be missing
UserSends(text, stamped) ==
    /\ h.userMsgs < MaxUserMsgs
    /\ now' = now + 1
    /\ messages' = Append(messages,
            NewMessage(Len(messages) + 1, "user", UserText(text),
                       IF stamped THEN now' ELSE NoTime))
    /\ h' = [h EXCEPT !.userMsgs = @ + 1]
    /\ UNCHANGED <<activeToolConfig, sessionCount, pendingTools, nl,
                   resumeTimers, completionTimers, calc, calls, sink, det, ma,
                   thinkTimers, validationVars>>

\* Two messages of the learner reach the transcript in one update
UserSendsTwo(first, second) ==
    /\ h.userMsgs + 2 <= MaxUserMsgs
    /\ now' = now + 1
    /\ messages' = messages \o
            <<NewMessage(Len(messages) + 1, "user", UserText(first), now'),
              NewMessage(Len(messages) + 2, "user", UserText(second), now')>>
    /\ h' = [h EXCEPT !.userMsgs = @ + 2]
    /\ UNCHANGED <<activeToolConfig, sessionCount, pendingTools, nl,
                   resumeTimers, completionTimers, calc, calls, sink, det, ma,
                   thinkTimers, validationVars>>

\* The timeout of handleDemoInterruption fires
ThinkTimerFires ==
    /\ thinkTimers > 0
    /\ thinkTimers' = thinkTimers - 1
    /\ messages' = SendMessageToChat(messages, Plain("think"), now)
    /\ UNCHANGED <<now, activeToolConfig, sessionCount, pendingTools, nl,
                   resumeTimers, completionTimers, calc, calls, sink, det, ma, h,
                   validationVars>>

UserTexts == {<<"Why", "?">>, <<"continue">>, <<"ok">>}

DetectProblems == {Problem(1, "+", 1)}

\* The transcript is cut off at MaxMessages
Open == Len(messages) < MaxMessages

\* Effects run before the next event is handled
Quiet == Open /\ ~EffectsPending

DetectNext ==
    \/ Open /\ DetectorEffects
    \/ \E text \in UserTexts, stamped \in BOOLEAN : Quiet /\ UserSends(text, stamped)
    \/ \E first, second \in UserTexts : Quiet /\ UserSendsTwo(first, second)
    \/ \E problem \in DetectProblems : Quiet /\ DemonstrateNumberLine(problem)
    \/ Quiet /\ ActivationFires
    \/ Quiet /\ DemoTick
    \/ Quiet /\ ResumeTimerFires
    \/ \E i \in 1..Len(completionTimers) : Quiet /\ CompletionNarrate(i)
    \/ \E i \in 1..Len(completionTimers) : Quiet /\ CompletionDeliver(i)
    \/ Quiet /\ ThinkTimerFires

DetectSpec == AppInit /\ [][DetectNext]_vars

\* C9 (as the specification states it): every message the detector
\* reports to onInterruption or takes for a resume request was appended to
\* the transcript after the current demo started.
C9_OnlyMessagesAfterDemoStart ==
    \A i \in 1..Len(h.reported) : h.reported[i].id > h.reported[i].startLen

\* C10 (as the specification states it): a query reported while the demo
\* is running pauses it with the quoted text as reason, and its message id
\* is reported to onInterruption this once only.
C10_PauseOnceWithQuotedReason ==
    \A i \in 1..Len(h.reported) :
        (h.reported[i].kind = "interruption" /\ h.reported[i].running) =>
            /\ h.reported[i].reason =
                  AnsweringReason(messages[h.reported[i].id].content.text)
            /\ \A j \in 1..Len(h.reported) :
                  (h.reported[j].kind = "interruption"
                   /\ h.reported[j].id = h.reported[i].id) => i = j

\* A user message asking to continue is among those the manager's effects
\* have not seen yet
ContinuationObserved ==
    \E i \in (det.seen + 1)..Len(messages) :
        /\ messages[i].role = "user"
        /\ IncludesSome(messages[i].content.text, DEMO_KEYWORDS)

\* C11 (as the specification states it): when the manager's effects
\* observe a Continuation message and the demo is Paused, or is paused in
\* the same pass, resume() takes effect: the demo has left Paused and the
\* settle timeout that restarts it at the saved step is pending.
C11_ContinuationResumes ==
    [][(/\ det'.seen # det.seen
        /\ ContinuationObserved
        /\ nl.mounted /\ nl.numbers.ok /\ ~nl.isDemoComplete
        /\ nl.isDemoPaused \/ (IsRunning(nl) /\ h'.pauseCalls > h.pauseCalls))
       => /\ ~nl'.isDemoPaused
          /\ nl'.resumeRequested
          /\ resumeTimers' # <<>>
          /\ Last(resumeTimers').currentStep = nl.demoStep]_vars

\* The user messages the manager's effects have not seen yet
Arrived ==
    {i \in (det.seen + 1)..Len(messages) : messages[i].role = "user"}

\* C28 (as the specification states it): an effects pass that observes
\* only Query messages while the demo is Paused, or only Continuation
\* messages while it is Running, has no effect: no pause or resume call
\* reaches the player, the player's state is unchanged, and nothing is
\* appended to the transcript.
C28_QueryWhilePausedHasNoEffect ==
    [][(/\ det'.seen # det.seen
        /\ Arrived # {}
        /\ nl.mounted /\ nl.numbers.ok /\ ~nl.isDemoComplete
        /\ \/ /\ nl.isDemoPaused
              /\ \A i \in Arrived : IsUserQuery(messages[i].content.text)
           \/ /\ IsRunning(nl)
              /\ \A i \in Arrived :
                    IncludesSome(messages[i].content.text, DEMO_KEYWORDS))
       => /\ h'.pauseCalls = h.pauseCalls
          /\ h'.resumeCalls = h.resumeCalls
          /\ nl' = nl
          /\ messages' = messages]_vars

\* ----------------------------------- a learner who asks to continue
\* The last message of the transcript is the learner's "continue"
ContinuationIsLast ==
    /\ messages # <<>>
    /\ Last(messages).role = "user"
    /\ Last(messages).content.text = <<"continue">>

\* While the demo is paused the learner sends "continue", once after
\* whatever the transcript received last
UserContinues ==
    /\ nl.mounted /\ nl.isDemoPaused
    /\ ~ContinuationIsLast
    /\ now' = now + 1
    /\ messages' = Append(messages,
            NewMessage(Len(messages) + 1, "user", UserText(<<"continue">>), now'))
    /\ UNCHANGED <<activeToolConfig, sessionCount, pendingTools, nl,
                   resumeTimers, completionTimers, calc, calls, sink, det, ma,
                   thinkTimers, h, validationVars>>

\* What the learner types here: a query and a request to continue
ContinueTexts == {<<"Why", "?">>, <<"continue">>}

\* The transcript is followed up to MaxTranscript messages
Following == Len(messages) < MaxTranscript

\* Effects run before the next event is handled
Settled == Following /\ ~EffectsPending

ContinueNext ==
    \/ Following /\ DetectorEffects
    \/ \E text \in ContinueTexts : Settled /\ UserSends(text, TRUE)
    \/ \E first, second \in ContinueTexts : Settled /\ UserSendsTwo(first, second)
    \/ \E problem \in DetectProblems : Settled /\ DemonstrateNumberLine(problem)
    \/ Settled /\ ActivationFires
    \/ Settled /\ DemoTick
    \/ Settled /\ ResumeTimerFires
    \/ Settled /\ ThinkTimerFires
    \/ Settled /\ UserContinues

\* Effects run, timeouts fire, and a learner whose demo is paused asks to
\* continue.  The effects of the manager are enabled exactly when their
\* dependencies have changed.
ContinueSpec ==
    /\ AppInit
    /\ [][ContinueNext]_vars
    /\ ([]<>~(Following /\ EffectsPending)
            \/ []<><<Following /\ DetectorEffects>>_vars)
    /\ WF_vars(Settled /\ ActivationFires)
    /\ WF_vars(Settled /\ DemoTick)
    /\ WF_vars(Settled /\ ResumeTimerFires)
    /\ WF_vars(Settled /\ ThinkTimerFires)
    /\ WF_vars(Settled /\ UserContinues)

\* C35 (as the specification states it): a demo on a problem that parses
\* reaches Completed, when its timeouts fire and every pause is followed
\* by a Continuation message (as far as the transcript is followed).
C35_DemoEventuallyCompletes ==
    (nl.mounted /\ nl.numbers.ok) ~> (nl.isDemoComplete \/ ~Following)

\* ------------------------------------- the completion of a demo delivered
\* A learner submits calculator results, and then a demo is started, runs
\* and completes; every timeout that is set fires.  The clock stands
\* still: the whole run lies within one window of the rate limiter.
DeliveryNext ==
    \/ \E expression \in LimiterExpressions : CalcKeys(expression)
    \/ h.submits < MaxSubmissions /\ HandleCalculate
    \/ h.submits < MaxSubmissions /\ SendToTeacher
    \/ \E problem \in SessionProblems : DemonstrateNumberLine(problem)
    \/ ActivationFires
    \/ DemoTick
    \/ \E i \in 1..Len(completionTimers) : CompletionNarrate(i)
    \/ \E i \in 1..Len(completionTimers) : CompletionDeliver(i)

DeliverySpec ==
    /\ CalcInit
    /\ [][DeliveryNext]_vars
    /\ WF_vars(ActivationFires)
    /\ WF_vars(DemoTick)
    /\ WF_vars(\E i \in 1..Len(completionTimers) : CompletionNarrate(i))
    /\ WF_vars(\E i \in 1..Len(completionTimers) : CompletionDeliver(i))

\* respond of the session sid has been invoked
Delivered(sid) == \E i \in 1..Len(sink) : sink[i].sid = sid

\* C36: a demo that is Completed while its session is the active one
\* leads to respond being invoked for that session, however many
\* submissions the rate limiter has admitted before.
C36_CompletionEventuallyDelivered ==
    \A sid \in 1..MaxSessions :
        (nl.mounted /\ nl.sid = sid /\ nl.isDemoComplete
                /\ activeToolConfig.sid = sid)
            ~> (Delivered(sid) \/ activeToolConfig.sid # sid)

\* ------------------------------------------------ what respond is handed
\* What the learner keys into the calculator: a sum, and a division by zero
ResponseExpressions == {Problem(1, "+", 1), Problem(1, "/", 0)}

\* A demo is started, and the calculator is opened after it, at any
\* moment of the demo; the learner submits results of the calculator.
\* The clock stands still.
ResponseNext ==
    \/ \E problem \in SessionProblems :
            sessionCount = 0 /\ DemonstrateNumberLine(problem)
    \/ sessionCount = 1 /\ OpenCalculator
    \/ ActivationFires
    \/ DemoTick
    \/ \E i \in 1..Len(completionTimers) : CompletionNarrate(i)
    \/ \E i \in 1..Len(completionTimers) : CompletionDeliver(i)
    \/ \E expression \in ResponseExpressions : CalcKeys(expression)
    \/ h.submits < MaxSubmissions /\ HandleCalculate
    \/ h.submits < MaxSubmissions /\ SendToTeacher

ResponseSpec == AppInit /\ [][ResponseNext]_vars

\* The message a handleToolResponse call owes to respond
OwedTag(problem, answer, messageHistory) ==
    IF Len(messageHistory) > 0 THEN "signal"
    ELSE IF ValidToolResponse(problem, answer) THEN "completion"
    ELSE "fallback"

\* C39: a handleToolResponse call the rate limiter admits invokes respond
\* once, with the completion signal when it is handed a message history,
\* else with the TOOL_COMPLETION message when the validation passes and
\* with the fallback message when it fails; a call the limiter rejects
\* does not invoke respond.  The calls are those of the calculator (no
\* history, the displayed result) and of a completed demo.
C39_AdmittedCallRespondsOnce ==
    [][Len(h'.limiter) = Len(h.limiter) + 1 =>
        LET admitted == Last(h'.limiter).allowed
            byDemo == Len(h'.handed) = Len(h.handed) + 1
            history == IF byDemo THEN Last(h'.handed).messageHistory ELSE <<>>
            answer == IF byDemo THEN Last(h'.handed).result ELSE calc'.display
            problem == IF byDemo THEN nl.problem ELSE calc.expression
        IN IF admitted
           THEN /\ Len(sink') = Len(sink) + 1
                /\ Last(sink').message.tag = OwedTag(problem, answer, history)
                /\ Last(sink').message.tag # "signal"
                       => Last(sink').message.n = answer
           ELSE sink' = sink]_vars

\* All three messages have been handed to respond, and a call has been
\* rejected
C39_Witness ==
    /\ \A tag \in {"signal", "completion", "fallback"} :
            \E i \in 1..Len(sink) : sink[i].message.tag = tag
    /\ \E i \in 1..Len(h.limiter) : ~h.limiter[i].allowed

\* --------------------------------------- the detector and closed sessions
\* A demo is started, and closed, replaced by the calculator or completed,
\* while the learner sends queries and requests to continue.
CloseNext ==
    \/ Open /\ DetectorEffects
    \/ \E text \in ContinueTexts : Quiet /\ UserSends(text, TRUE)
    \/ \E problem \in SessionProblems : Quiet /\ DemonstrateNumberLine(problem)
    \/ Quiet /\ OpenCalculator
    \/ Quiet /\ ActivationFires
    \/ Quiet /\ ClearActiveTool
    \/ Quiet /\ DemoTick
    \/ Quiet /\ ResumeTimerFires
    \/ \E i \in 1..Len(completionTimers) : Quiet /\ CompletionNarrate(i)
    \/ \E i \in 1..Len(completionTimers) : Quiet /\ CompletionDeliver(i)
    \/ Quiet /\ ThinkTimerFires

CloseSpec == AppInit /\ [][CloseNext]_vars

\* A demonstration is the active session, or is about to be activated
DemoSessionActive ==
    \/ IsDemoType(activeToolConfig.type)
    \/ \E i \in 1..Len(pendingTools) : IsDemoType(pendingTools[i].type)

\* C37 (as the specification states it): the detector calls
\* handleDemoInterruption or handleDemoResume only while a demonstration
\* is the active session (or is being activated); after the session was
\* closed, replaced by another tool or completed, a query is not reported.
C37_DetectorOnlyDuringDemoSession ==
    [][Len(h'.reported) > Len(h.reported) => DemoSessionActive]_vars

\* ------------------------------------------- the number line, by hand
\* The handler of the action number_line: the problem and the operation
\* are two arguments of the action.
ShowNumberLine(problem, operation) ==
    /\ sessionCount < MaxSessions
    /\ sessionCount' = sessionCount + 1
    /\ pendingTools' = Append(pendingTools,
            ToolConfig("number_line", sessionCount + 1, problem, operation,
                       ma.isDemoInterrupted))
    /\ UNCHANGED <<now, messages, activeToolConfig, nl, resumeTimers,
                   completionTimers, calc, calls, sink, det, ma, thinkTimers, h,
                   validationVars>>

\* `Great! Now count ${operation === 'addition' ? 'forward' : 'backward'}
\* ${remaining} more step`
CountMore(operation, remaining) ==
    Narration(IF operation = "addition" THEN "countForward" ELSE "countBackward",
              remaining)

CollectAll(n, out) ==
    [n EXCEPT !.messageHistory = @ \o [i \in 1..Len(out) |-> CleanMessage(out[i])]]

\* NumberLine.handleNumberClick(num) with validateStep and the validation
\* callback it triggers.  The grading is local and ends before the next
\* event is handled, so validationInProgress is false whenever a click is
\* handled.  The handler reads showValidationFeedback as it was rendered
\* when the number was clicked.
HandleNumberClick(n, num) ==
    LET result == ProcessValidationLocally("number_line", n.problem,
                                           StepData(n.steps, num))
        isValidStep == n.demoMode \/ result.thrown \/ result.is_correct
        validated ==
            IF n.demoMode THEN n
            ELSE [n EXCEPT !.showValidationFeedback = TRUE,
                           !.hideTimers = @ + (IF ~result.thrown /\ result.is_correct
                                               THEN 1 ELSE 0)]
        lastStep == n.steps[Len(n.steps)]
        extends == \/ n.operation = "addition" /\ num = lastStep + 1
                   \/ n.operation = "subtraction" /\ num = lastStep - 1
        remaining == n.numbers.secondNumber - Len(n.steps)
        progress == IF n.showValidationFeedback THEN <<>>
                    ELSE IF remaining > 0 THEN <<CountMore(n.operation, remaining)>>
                    ELSE <<Narration("youDidIt", 0)>>
        completion == IF Len(n.steps) = n.numbers.secondNumber
                      THEN <<CompletionTimer(n, num)>> ELSE <<>>
    IN IF ~n.numbers.ok THEN Yield(n, <<>>, <<>>)
       ELSE IF ~isValidStep THEN Yield(validated, <<>>, <<>>)
       ELSE IF n.selectedNumber = NoNumber
       THEN IF num = n.numbers.firstNumber
            THEN LET m == CountMore(n.operation, n.numbers.secondNumber)
                 IN Yield([Collect(validated, m) EXCEPT !.selectedNumber = num,
                                                        !.steps = <<num>>],
                          <<m>>, <<>>)
            ELSE Yield(validated, <<>>, <<>>)
       ELSE IF extends
       THEN Yield([CollectAll(validated, progress) EXCEPT !.steps = Append(@, num)],
                  progress, completion)
       ELSE Yield(validated, <<>>, <<>>)

\* The learner clicks a number of the line
NumberClick(num) ==
    /\ nl.mounted /\ ~nl.demoMode
    /\ h.clicks < MaxClicks
    /\ LET y == HandleNumberClick(nl, num)
       IN /\ nl' = y.n
          /\ messages' = SendIntermediate(nl.muted, messages, y.out, now)
          /\ completionTimers' = completionTimers \o y.completion
    /\ h' = [h EXCEPT !.clicks = @ + 1, !.clicked = num]
    /\ UNCHANGED <<now, resumeTimers, calls, sink, ma, otherThanDemo>>

\* The timeout that hides the feedback of a correct step fires
FeedbackHides ==
    /\ nl.mounted /\ nl.hideTimers > 0
    /\ nl' = [nl EXCEPT !.showValidationFeedback = FALSE, !.hideTimers = @ - 1]
    /\ UNCHANGED <<now, messages, resumeTimers, completionTimers, calls, sink,
                   ma, h, otherThanDemo>>

\* The problems and operations a number line is shown for, and the
\* numbers of the line a learner clicks
ManualProblems == {Problem(x, op, y) : x \in 1..MaxA, op \in NumberLineOps, y \in 0..MaxB}
Operations == {"addition", "subtraction"}
ClickNumbers == 0..(MaxA + MaxB)

ManualNext ==
    \/ \E problem \in ManualProblems, operation \in Operations :
            sessionCount = 0 /\ ShowNumberLine(problem, operation)
    \/ ActivationFires
    \/ \E num \in ClickNumbers : NumberClick(num)
    \/ FeedbackHides
    \/ \E i \in 1..Len(completionTimers) : CompletionNarrate(i)
    \/ \E i \in 1..Len(completionTimers) : CompletionDeliver(i)

ManualSpec == AppInit /\ [][ManualNext]_vars

\* What the sequential-step grader answers to a click of num
JudgedClick(n, num) ==
    ProcessValidationLocally("number_line", n.problem, StepData(n.steps, num))

\* This step of the model is a click
Clicked == h'.clicks = h.clicks + 1

\* C38 (as the specification states it), first half: a click the grader
\* judges Correct sets the starting number or extends the path by the
\* number clicked, whatever operator the problem text has and whatever
\* operation the tool was activated with.
C38_CorrectClickExtendsPath ==
    [][Clicked /\ JudgedClick(nl, h'.clicked).is_correct
        => nl'.steps = (IF nl.selectedNumber = NoNumber THEN <<h'.clicked>>
                        ELSE Append(nl.steps, h'.clicked))]_vars

\* The click with which the grader reports the problem completed sets the
\* completion timeout of the component.
CompletedClickCompletes ==
    [][Clicked /\ JudgedClick(nl, h'.clicked).problem_completed
        => Len(completionTimers') = Len(completionTimers) + 1]_vars

\* -------------------------------------------------- FrontendValidator
MAX_PROBLEM_LENGTH == 100

\* An expression is a sequence of characters.  The characters put to the
\* validator here: a digit, the signs of a quotient, a product and a
\* difference, and the equals sign.  None is a letter, a quote or "<".
ExprAlphabet == {"1", "-", "/", "*", "="}
Expressions == UNION {[1..n -> ExprAlphabet] : n \in 1..MaxExprLen}

DigitChars == {"0", "1", "2", "3", "4", "5", "6", "7", "8", "9"}
SpaceChars == {" "}
OperatorChars == {"+", "-", "*", "/", "×", "÷"}

\* MATH_PATTERN = /^[\d\s+\-*/()×÷.=?]+$/
MATH_PATTERN(str) ==
    /\ Len(str) > 0
    /\ \A i \in 1..Len(str) :
          str[i] \in DigitChars \cup SpaceChars \cup OperatorChars
                        \cup {"(", ")", ".", "=", "?"}

\* An item of an anchored pattern: one character of a class, or a run
One(class) == [class |-> class, min |-> 1, many |-> FALSE]
Plus(class) == [class |-> class, min |-> 1, many |-> TRUE]
Star(class) == [class |-> class, min |-> 0, many |-> TRUE]

\* /^...$/.test(str): the items from k on match str from i to its end
RECURSIVE MatchesFrom(_, _, _, _)
MatchesFrom(items, k, str, i) ==
    IF k > Len(items) THEN i = Len(str) + 1
    ELSE LET item == items[k]
             here == i <= Len(str) /\ str[i] \in item.class
         IN \/ item.min = 0 /\ MatchesFrom(items, k + 1, str, i)
            \/ here /\ MatchesFrom(items, k + 1, str, i + 1)
            \/ here /\ item.many /\ MatchesFrom(items, k, str, i + 1)

\* \d+\s*[+\-*/×÷]\s*\d+
Operation == <<Plus(DigitChars), Star(SpaceChars), One(OperatorChars),
               Star(SpaceChars), Plus(DigitChars)>>
Equals == <<Star(SpaceChars), One({"="}), Star(SpaceChars)>>

\* "5 + 3 = ?", "5 + 3", "5 + 3 = 8", "? = 5 + 3"
MATH_EQUATION_PATTERNS ==
    <<Operation \o Equals \o <<One({"?"})>>,
      Operation,
      Operation \o Equals \o <<Plus(DigitChars)>>,
      <<One({"?"})>> \o Equals \o Operation>>

IsRecognizedMathFormat(str) ==
    \E p \in 1..Len(MATH_EQUATION_PATTERNS) :
        MatchesFrom(MATH_EQUATION_PATTERNS[p], 1, str, 1)

\* cleaned.replace(/×/g, '*').replace(/÷/g, '/'); the script tags removed
\* before have a letter in them, which no expression here has
Cleaned(expression) ==
    [i \in 1..Len(expression) |->
        IF expression[i] = "×" THEN "*"
        ELSE IF expression[i] = "÷" THEN "/" ELSE expression[i]]

\* DANGEROUS_PATTERNS, all with the global flag: script tags,
\* "javascript:", event handlers and SQL keywords match only a text with
\* a letter in it; /--/ and /\/\*.*\*\// match texts of signs.
DANGEROUS_PATTERNS == <<"script", "javascript", "handler", "sql", "comment", "block">>

\* The places (from 1) where a match of the pattern starts in str, each
\* with the lastIndex the match leaves
MatchesOf(pattern, str) ==
    IF pattern = "comment"
    THEN {[start |-> i, lastIndex |-> i + 1] :
            i \in {j \in 1..(Len(str) - 1) : str[j] = "-" /\ str[j + 1] = "-"}}
    ELSE IF pattern = "block"
    THEN LET closes(i) == {j \in (i + 2)..(Len(str) - 1) :
                                str[j] = "*" /\ str[j + 1] = "/"}
             opens == {i \in 1..(Len(str) - 1) :
                            str[i] = "/" /\ str[i + 1] = "*" /\ closes(i) # {}}
         IN {[start |-> i,
              lastIndex |-> 1 + CHOOSE j \in closes(i) : \A l \in closes(i) : l <= j] :
                i \in opens}
    ELSE {}

\* pattern.test(str) of a pattern with the global flag: the search starts
\* at lastIndex; a match moves lastIndex behind it, a failure resets it
Test(pattern, str, lastIndex) ==
    LET found == {m \in MatchesOf(pattern, str) : m.start > lastIndex}
    IN IF found = {} THEN [matched |-> FALSE, lastIndex |-> 0]
       ELSE LET first == CHOOSE m \in found : \A l \in found : m.start <= l.start
            IN [matched |-> TRUE, lastIndex |-> first.lastIndex]

\* for (const pattern of DANGEROUS_PATTERNS) { if (pattern.test(cleaned))
\* { ...; break; } } from pattern k on
RECURSIVE DangerousFrom(_, _, _)
DangerousFrom(k, str, lastIndex) ==
    IF k > Len(DANGEROUS_PATTERNS) THEN [matched |-> FALSE, lastIndex |-> lastIndex]
    ELSE LET t == Test(DANGEROUS_PATTERNS[k], str, lastIndex[k])
             after == [lastIndex EXCEPT ![k] = t.lastIndex]
         IN IF t.matched THEN [matched |-> TRUE, lastIndex |-> after]
            ELSE DangerousFrom(k + 1, str, after)

Count(str, char) == Cardinality({i \in 1..Len(str) : str[i] = char})

\* FrontendValidator.validateMathExpression, given the lastIndex of the
\* shared patterns: the result and the lastIndex it leaves
ValidateMathExpression(expression, lastIndex) ==
    IF Len(expression) > MAX_PROBLEM_LENGTH
    THEN [isValid |-> FALSE, errors |-> <<"tooLong">>, lastIndex |-> lastIndex]
    ELSE LET cleaned == Cleaned(expression)
             isValidMath == MATH_PATTERN(cleaned)
             scanned == ~IsRecognizedMathFormat(cleaned) /\ isValidMath
             scan == IF scanned THEN DangerousFrom(1, cleaned, lastIndex)
                     ELSE [matched |-> FALSE, lastIndex |-> lastIndex]
             errors == (IF isValidMath THEN <<>> ELSE <<"invalid">>)
                       \o (IF scan.matched THEN <<"dangerous">> ELSE <<>>)
                       \o (IF Count(cleaned, "(") # Count(cleaned, ")")
                           THEN <<"unbalanced">> ELSE <<>>)
         IN [isValid |-> errors = <<>>, errors |-> errors,
             lastIndex |-> scan.lastIndex]

\* FrontendValidator.sanitizeString: every pattern is put to
\* String.replace, which searches from the start and leaves lastIndex 0
SanitizeString(lastIndex) == [k \in 1..Len(DANGEROUS_PATTERNS) |-> 0]

ValidatorInit ==
    /\ AppIdle
    /\ grader = NoGrader
    /\ classifier = NoClassifier
    /\ provider = InitProvider
    /\ \E expression \in Expressions :
          validator = [NoValidator EXCEPT !.expression = expression]

validatorUnchanged ==
    <<now, messages, activeToolConfig, sessionCount, pendingTools, nl,
      resumeTimers, completionTimers, calc, calls, sink, det, ma,
      thinkTimers, h, validationCallbacks, gradingCalls, practice,
      submitTimers, grader, classifier, provider>>

\* A caller validates its expression and keeps the first and the last
\* result
ValidateOwn ==
    /\ validator.calls < MaxValidations
    /\ LET r == ValidateMathExpression(validator.expression, validator.lastIndex)
           result == [isValid |-> r.isValid, errors |-> r.errors]
       IN validator' = [validator EXCEPT
                            !.calls = @ + 1,
                            !.lastIndex = r.lastIndex,
                            !.first = IF validator.calls = 0 THEN result ELSE @,
                            !.last = result]
    /\ UNCHANGED validatorUnchanged

\* The expressions other callers validate in between
OtherExpressions == {<<"1", "-", "-", "1">>, <<"1", "-", "1">>, <<"-", "-", "-", "-">>}

ValidateOther(expression) ==
    /\ validator.others < MaxValidations
    /\ validator' = [validator EXCEPT
            !.others = @ + 1,
            !.lastIndex = ValidateMathExpression(expression, @).lastIndex]
    /\ UNCHANGED validatorUnchanged

\* A string is sanitized (an answer typed as text, for one)
Sanitize ==
    /\ validator.lastIndex # SanitizeString(validator.lastIndex)
    /\ validator' = [validator EXCEPT !.lastIndex = SanitizeString(@)]
    /\ UNCHANGED validatorUnchanged

ValidatorNext ==
    \/ ValidateOwn
    \/ \E expression \in OtherExpressions : ValidateOther(expression)
    \/ Sanitize

ValidatorSpec == ValidatorInit /\ [][ValidatorNext]_vars

\* C40 (as the specification states it): the calls a caller makes with
\* one expression return the same isValid and the same errors, whatever
\* was validated or sanitized in between.
C40_ValidationIsDeterministic ==
    validator.calls > 0 => validator.last = validator.first

\* ------------------------------------------- the classifier of messages
\* The characters of the strings of the lexicons and of the learner's words
Spelling(s) ==
    CASE s = "continue" -> <<"c", "o", "n", "t", "i", "n", "u", "e">>
      [] s = "resume" -> <<"r", "e", "s", "u", "m", "e">>
      [] s = "next step" -> <<"n", "e", "x", "t", " ", "s", "t", "e", "p">>
      [] s = "keep going" -> <<"k", "e", "e", "p", " ", "g", "o", "i", "n", "g">>
      [] s = "proceed" -> <<"p", "r", "o", "c", "e", "e", "d">>
      [] s = "go on" -> <<"g", "o", " ", "o", "n">>
      [] s = "demo" -> <<"d", "e", "m", "o">>
      [] s = "demonstration" -> <<"d", "e", "m", "o", "n", "s", "t", "r", "a", "t", "i", "o", "n">>
      [] s = "show me" -> <<"s", "h", "o", "w", " ", "m", "e">>
      [] s = "let me see" -> <<"l", "e", "t", " ", "m", "e", " ", "s", "e", "e">>
      [] s = "continue demo" -> <<"c", "o", "n", "t", "i", "n", "u", "e", " ", "d", "e", "m", "o">>
      [] s = "what" -> <<"w", "h", "a", "t">>
      [] s = "how" -> <<"h", "o", "w">>
      [] s = "why" -> <<"w", "h", "y">>
      [] s = "when" -> <<"w", "h", "e", "n">>
      [] s = "where" -> <<"w", "h", "e", "r", "e">>
      [] s = "who" -> <<"w", "h", "o">>
      [] s = "can you" -> <<"c", "a", "n", " ", "y", "o", "u">>
      [] s = "could you" -> <<"c", "o", "u", "l", "d", " ", "y", "o", "u">>
      [] s = "would you" -> <<"w", "o", "u", "l", "d", " ", "y", "o", "u">>
      [] s = "will you" -> <<"w", "i", "l", "l", " ", "y", "o", "u">>
      [] s = "explain" -> <<"e", "x", "p", "l", "a", "i", "n">>
      [] s = "tell me" -> <<"t", "e", "l", "l", " ", "m", "e">>
      [] s = "help me" -> <<"h", "e", "l", "p", " ", "m", "e">>
      [] s = "?" -> <<"?">>
      [] s = "can" -> <<"c", "a", "n">>
      [] s = "could" -> <<"c", "o", "u", "l", "d">>
      [] s = "would" -> <<"w", "o", "u", "l", "d">>
      [] s = "will" -> <<"w", "i", "l", "l">>
      [] s = "is" -> <<"i", "s">>
      [] s = "are" -> <<"a", "r", "e">>
      [] s = "do" -> <<"d", "o">>
      [] s = "does" -> <<"d", "o", "e", "s">>
      [] s = "Continue" -> <<"C", "o", "n", "t", "i", "n", "u", "e">>
      [] s = "Why" -> <<"W", "h", "y">>
      [] s = "ok" -> <<"o", "k">>
      [] s = " " -> <<" ">>
      [] s = "show" -> <<"s", "h", "o", "w">>
      [] s = "me" -> <<"m", "e">>

\* String.prototype.toLowerCase, on the capitals a learner types here
ToLowerCase(message) ==
    [i \in 1..Len(message) |->
        CASE message[i] = "C" -> "c"
          [] message[i] = "W" -> "w"
          [] OTHER -> message[i]]

RECURSIVE TrimStart(_)
TrimStart(message) ==
    IF message # <<>> /\ Head(message) = " " THEN TrimStart(Tail(message))
    ELSE message

RECURSIVE TrimEnd(_)
TrimEnd(message) ==
    IF message # <<>> /\ Last(message) = " "
    THEN TrimEnd(SubSeq(message, 1, Len(message) - 1))
    ELSE message

\* String.prototype.trim
Trim(message) == TrimEnd(TrimStart(message))

\* String.prototype.includes
Includes(message, keyword) ==
    \E i \in 1..(Len(message) - Len(keyword) + 1) :
        SubSeq(message, i, i + Len(keyword) - 1) = keyword

\* /^(what|how|...|does)\s/i.test(lowerMessage)
StartsWithQuestion(lowerMessage) ==
    \E w \in QuestionStarters :
        /\ Len(lowerMessage) > Len(Spelling(w))
        /\ SubSeq(lowerMessage, 1, Len(Spelling(w))) = Spelling(w)
        /\ lowerMessage[Len(Spelling(w)) + 1] = " "

\* An isUserQuery without the check for a demo continuation request
IsUserQueryIgnoringKeywords(message) ==
    LET lowerMessage == Trim(ToLowerCase(message))
    IN IF Len(lowerMessage) < 3 THEN FALSE
       ELSE \/ \E indicator \in QUESTION_INDICATORS :
                  Includes(lowerMessage, Spelling(indicator))
            \/ StartsWithQuestion(lowerMessage)

\* isUserQuery(message), on the characters of the message
IsUserQueryString(message) ==
    LET lowerMessage == Trim(ToLowerCase(message))
        isDemoContinuation ==
            \E keyword \in DEMO_KEYWORDS : Includes(lowerMessage, Spelling(keyword))
        isQuestion ==
            \E indicator \in QUESTION_INDICATORS :
                Includes(lowerMessage, Spelling(indicator))
        hasQuestionMark == Includes(lowerMessage, Spelling("?"))
        startsWithQuestion == StartsWithQuestion(lowerMessage)
    IN IF Len(lowerMessage) < 3 THEN FALSE
       ELSE IF isDemoContinuation THEN FALSE
       ELSE isQuestion \/ hasQuestionMark \/ startsWithQuestion

\* The test of the resume effect on the content of a user message
HasResumeKeyword(content) ==
    /\ content # <<>>
    /\ \E keyword \in DEMO_KEYWORDS :
          Includes(ToLowerCase(content), Spelling(keyword))

\* The words and signs a learner's message is made of
Tokens == {"Continue", "?", "Why", "is", "ok", " ", "show", "me"}

RECURSIVE Join(_)
Join(tokens) ==
    IF tokens = <<>> THEN <<>> ELSE Spelling(Head(tokens)) \o Join(Tail(tokens))

\* The messages classified: up to MaxTokens tokens in a row
Contents ==
    {Join(tokens) : tokens \in UNION {[1..n -> Tokens] : n \in 0..MaxTokens}}

ClassifyInit ==
    /\ AppIdle
    /\ grader = NoGrader
    /\ \E content \in Contents :
          classifier = [NoClassifier EXCEPT !.content = content]
    /\ provider = InitProvider
    /\ validator = NoValidator

classifierUnchanged ==
    <<now, messages, activeToolConfig, sessionCount, pendingTools, nl,
      resumeTimers, completionTimers, calc, calls, sink, det, ma,
      thinkTimers, h, validationCallbacks, gradingCalls, practice,
      submitTimers, grader, provider, validator>>

\* detectInterruption asks isUserQuery about the content of a user
\* message; empty content is filtered out before
ClassifyQuery ==
    /\ ~classifier.queried
    /\ classifier' = [classifier EXCEPT
            !.queried = TRUE,
            !.isUserQuery = classifier.content # <<>>
                                /\ IsUserQueryString(classifier.content)]
    /\ UNCHANGED classifierUnchanged

\* The resume effect looks for a keyword in the content of a user message
ClassifyResume ==
    /\ ~classifier.resumeChecked
    /\ classifier' = [classifier EXCEPT
            !.resumeChecked = TRUE,
            !.hasResumeRequest = HasResumeKeyword(classifier.content)]
    /\ UNCHANGED classifierUnchanged

ClassifyNext == ClassifyQuery \/ ClassifyResume

ClassifySpec == ClassifyInit /\ [][ClassifyNext]_vars

\* The class the manager gives the message it has classified
ClassOf(c) ==
    IF c.hasResumeRequest THEN "Continuation"
    ELSE IF c.isUserQuery THEN "Query"
    ELSE "Noise"

Classified == classifier.queried /\ classifier.resumeChecked

\* The marks of a query in a lowercase message
QueryMarks(lowerMessage) ==
    \/ Includes(lowerMessage, <<"?">>)
    \/ \E w \in {"what", "how", "why", "when", "where", "who", "can you",
                 "could you", "would you", "will you", "explain", "tell me",
                 "help me"} : Includes(lowerMessage, Spelling(w))
    \/ StartsWithQuestion(lowerMessage)

\* Continuation before Query before Noise, where a message counts as
\* short when it has fewer than 3 of the given characters
PriorityClass(message, counted) ==
    LET lowerMessage == ToLowerCase(message)
    IN IF \E w \in {"continue", "resume", "next step", "keep going",
                    "proceed", "go on", "demo", "demonstration", "show me",
                    "let me see"} : Includes(lowerMessage, Spelling(w))
       THEN "Continuation"
       ELSE IF Len(counted) < 3 THEN "Noise"
       ELSE IF QueryMarks(TrimStart(lowerMessage)) THEN "Query"
       ELSE "Noise"

\* C29 (as the specification states it): the message gets one class, by
\* priority: Continuation if its lowercase content contains a continuation
\* keyword, else Noise if it has fewer than 3 characters, else Query if it
\* has a question mark, an interrogative substring or an interrogative
\* prefix, else Noise.
C29_PriorityClassification ==
    Classified =>
        /\ ~(classifier.isUserQuery /\ classifier.hasResumeRequest)
        /\ ClassOf(classifier) = PriorityClass(classifier.content, classifier.content)

\* C29, amended: as above, where the characters counted for the rule of 3
\* are those of the content without the whitespace around it.
C29_PriorityClassificationTrimmed ==
    Classified =>
        /\ ~(classifier.isUserQuery /\ classifier.hasResumeRequest)
        /\ Len(classifier.content) < 3 => ClassOf(classifier) = "Noise"
        /\ ClassOf(classifier) =
              PriorityClass(classifier.content, Trim(classifier.content))

\* A message with a continuation keyword and a question mark has been
\* classified: it is a Continuation and not a query.
C29_Witness ==
    /\ Classified
    /\ Includes(ToLowerCase(classifier.content), Spelling("continue"))
    /\ Includes(classifier.content, <<"?">>)
    /\ classifier.hasResumeRequest
    /\ ~classifier.isUserQuery

\* ------------------------------------------------- the demo player
PauseReasons == {PlainReason(<<"User", "query">>), PlainReason(<<"question">>)}

DemoConfig(sid, problem) ==
    ToolConfig("demonstrate_number_line", sid, problem, OperationOf(problem), FALSE)

\* A demonstration has just been activated in a fresh application
DemoInit ==
    \E problem \in Problems :
        LET cfg == DemoConfig(1, problem)
            y == Mount(cfg)
        IN /\ now = 0
           /\ activeToolConfig = cfg
           /\ sessionCount = 1
           /\ pendingTools = <<>>
           /\ nl = y.n
           /\ messages = SendIntermediate(FALSE, <<>>, y.out, 0)
           /\ completionTimers = y.completion
           /\ resumeTimers = <<>>
           /\ calc = NoCalc
           /\ calls = <<>>
           /\ sink = <<>>
           /\ det = InitDet
           /\ ma = [activeDemoType |-> "demonstrate_number_line",
                    isDemoInterrupted |-> FALSE]
           /\ thinkTimers = 0
           /\ h = InitH
           /\ ValidationIdle
           /\ grader = NoGrader
           /\ classifier = NoClassifier
           /\ provider = InitProvider
           /\ validator = NoValidator

DemoNext ==
    \/ DemoTick
    \/ \E reason \in PauseReasons : PauseCall(reason)
    \/ ResumeCall
    \/ ResumeTimerFires
    \/ \E i \in 1..Len(completionTimers) : CompletionNarrate(i)
    \/ \E i \in 1..Len(completionTimers) : CompletionDeliver(i)

DemoSpec == DemoInit /\ [][DemoNext]_vars

\* --------------------------------------- the demo state of the provider
\* ToolProvider.pauseDemo(reason).  The control object's pause runs on the
\* instance that is mounted; when isDemoPaused changes, the context value
\* changes and ToolDisplay renders the tool again under a fresh key.
ProviderPauseDemo(reason) ==
    /\ h.providerCalls < MaxProviderCalls
    /\ IsDemoType(activeToolConfig.type)
    /\ provider' = [provider EXCEPT !.isDemoPaused = TRUE]
    /\ IF nl.mounted
       THEN LET u == PauseUpdates(nl, reason, now)
                y == IF provider.isDemoPaused THEN Render(nl, u.n)
                     ELSE Mount(activeToolConfig)
            IN /\ nl' = y.n
               /\ messages' = SendIntermediate(nl.muted, messages, u.out \o y.out, now)
               /\ completionTimers' = completionTimers \o y.completion
       ELSE UNCHANGED <<nl, messages, completionTimers>>
    /\ h' = [h EXCEPT !.providerCalls = @ + 1,
                      !.pauseCalls = @ + (IF nl.mounted THEN 1 ELSE 0)]
    /\ UNCHANGED <<now, activeToolConfig, sessionCount, pendingTools, resumeTimers,
                   calc, calls, sink, det, ma, thinkTimers, validationCallbacks,
                   gradingCalls, practice, submitTimers, grader, classifier,
                   validator>>

\* ToolProvider.resumeDemo: it returns at once while demoState is null
ProviderResumeDemo ==
    /\ h.providerCalls < MaxProviderCalls
    /\ provider' = IF provider.demoState.set
                   THEN [provider EXCEPT !.isDemoPaused = FALSE]
                   ELSE provider
    /\ IF provider.demoState.set /\ nl.mounted
       THEN LET u == ResumeUpdates(nl)
                y == IF provider.isDemoPaused THEN Mount(activeToolConfig)
                     ELSE Render(nl, u.n)
            IN /\ nl' = y.n
               /\ messages' = SendIntermediate(nl.muted, messages, u.out \o y.out, now)
               /\ completionTimers' = completionTimers \o y.completion
               /\ resumeTimers' = resumeTimers \o u.timers
       ELSE UNCHANGED <<nl, messages, completionTimers, resumeTimers>>
    /\ h' = [h EXCEPT !.providerCalls = @ + 1,
                      !.resumeCalls = @ + (IF provider.demoState.set /\ nl.mounted
                                           THEN 1 ELSE 0)]
    /\ UNCHANGED <<now, activeToolConfig, sessionCount, pendingTools,
                   calc, calls, sink, det, ma, thinkTimers, validationCallbacks,
                   gradingCalls, practice, submitTimers, grader, classifier,
                   validator>>

ProviderNext ==
    \/ \E problem \in SessionProblems : DemonstrateNumberLine(problem)
    \/ OpenCalculator
    \/ ActivationFires
    \/ ClearActiveTool
    \/ DemoTick
    \/ \E reason \in PauseReasons : ProviderPauseDemo(reason)
    \/ ProviderResumeDemo

ProviderSpec == AppInit /\ [][ProviderNext]_vars

\* C32 (as the specification states it): while the active session is not
\* a demonstration, or there is none, the provider holds no demo state and
\* is not paused, and no NumberLine with a saved demo state is mounted.
C32_DemoStateOnlyForDemos ==
    ~IsDemoType(activeToolConfig.type) =>
        /\ ~provider.demoState.set
        /\ ~provider.isDemoPaused
        /\ ~(nl.mounted /\ (nl.savedDemoState.set \/ nl.isDemoPaused))

\* ------------------------------------------- properties of the player
Uninterrupted == h.pauseCalls = 0 /\ h.resumeCalls = 0

StepTags == {"start", "letsOp", "step", "done"}

\* The narrations of the steps 0 .. b + 1 of a demo on numbers
ExpectedStepNarrations(numbers) ==
    [i \in 1..(numbers.secondNumber + 2) |->
        CleanMessage(IF i = 1 THEN Narration("start", numbers.firstNumber)
                     ELSE IF i = numbers.secondNumber + 2
                     THEN Narration("done", DemoResult(numbers))
                     ELSE StepMessage(numbers, i - 1))]

\* C4 (as the specification states it): whenever a demo has handed its
\* completion to onAnswer, the history handed over equals the narrations
\* emitted to the chat up to the call, and the sink has received the
\* result of the demo from that session.
C4_FullHistoryAndResultDelivered ==
    \A i \in 1..Len(h.handed) :
        /\ h.handed[i].messageHistory = h.handed[i].narrated
        /\ \E j \in 1..Len(sink) :
              /\ sink[j].sid = h.handed[i].sid
              /\ sink[j].message.tag = "completion"
              /\ sink[j].message.n = h.handed[i].result

\* C5 (as the specification states it): while the demo is paused, every
\* step other than a resume() call leaves currentStep alone and is no
\* tick; the settle timeout that restarts playback restarts it at the
\* step the demo had; and a demo that is Completed has taken b + 1 ticks,
\* as many as a demo that was never paused.
C5_PauseFreezesAndStepCountKept ==
    [][/\ (nl.isDemoPaused /\ h'.resumeCalls = h.resumeCalls)
            => (nl'.demoStep = nl.demoStep /\ h'.ticks = h.ticks)
       /\ (nl.resumeRequested /\ ~nl'.resumeRequested)
            => nl'.demoStep = nl.demoStep
       /\ (nl'.numbers.ok /\ nl'.isDemoComplete)
            => h'.ticks = nl'.numbers.secondNumber + 1]_vars

\* C6 (as the specification states it): an uninterrupted demo that is
\* Completed has taken b + 1 ticks and produced b + 2 narration messages.
C6_ExactlyBPlus2Narrations ==
    (nl.numbers.ok /\ nl.isDemoComplete /\ Uninterrupted) =>
        /\ h.ticks = nl.numbers.secondNumber + 1
        /\ Len(Narrations(messages)) = nl.numbers.secondNumber + 2

\* C6 (amended): an uninterrupted demo that is Completed has taken b + 1
\* ticks and produced b + 2 step narrations, one per step from the start
\* message to the done message, in order; the narrations of the run are
\* the introduction sent on mount, these b + 2, and after the completion
\* delay the completion narration: b + 3 on entering Completed, b + 4 in
\* all.
C6_UninterruptedDemoCounts ==
    (nl.numbers.ok /\ nl.isDemoComplete /\ Uninterrupted) =>
        LET all == Narrations(messages)
            stepsOnly == SelectSeq(all, LAMBDA m : m.tag \in StepTags)
            intro == <<CleanMessage(Narration("watch", 0))>>
            great == <<CleanMessage(Narration("great", DemoResult(nl.numbers)))>>
            expected == ExpectedStepNarrations(nl.numbers)
        IN /\ h.ticks = nl.numbers.secondNumber + 1
           /\ stepsOnly = expected
           /\ Len(stepsOnly) = nl.numbers.secondNumber + 2
           /\ all \in {intro \o expected, intro \o expected \o great}
           /\ (sink # <<>>) => Len(all) = nl.numbers.secondNumber + 4

\* An uninterrupted demo with at least two moving steps has completed and
\* delivered its completion.
C6_Witness ==
    /\ nl.numbers.ok /\ nl.isDemoComplete /\ Uninterrupted
    /\ nl.numbers.secondNumber >= 2
    /\ sink # <<>>

\* C7 (as the specification states it): a pause() call that finds the demo
\* paused leaves the saved DemoState and the pause reason as they were and
\* emits no narration.
C7_SecondPauseIsNoOp ==
    [][(h'.pauseCalls # h.pauseCalls /\ nl.isDemoPaused) =>
          /\ nl'.savedDemoState = nl.savedDemoState
          /\ nl'.pauseReason = nl.pauseReason
          /\ messages' = messages]_vars

\* C8: a resume() call that finds no saved DemoState changes nothing of
\* the player: its state and its pending tick stay, no settle timeout is
\* set and no narration is emitted.
C8_ResumeWithoutPauseIsNoOp ==
    [][(h'.resumeCalls # h.resumeCalls /\ ~nl.savedDemoState.set) =>
          /\ nl' = nl
          /\ resumeTimers' = resumeTimers
          /\ completionTimers' = completionTimers
          /\ messages' = messages]_vars

\* resume() has been called on a running demo that was never paused, and
\* its tick is still pending.
C8_Witness ==
    /\ h.resumeCalls > 0 /\ h.pauseCalls = 0
    /\ ~nl.savedDemoState.set
    /\ nl.numbers.ok /\ nl.tick # NoTick /\ nl.demoStep > 0

\* C21 (as the specification states it): a demo whose problem cannot be
\* parsed stays Stopped: it has no tick pending, is at step 0, is neither
\* paused nor resuming nor complete, and no step narration was emitted.
C21_UnparsedDemoStaysStopped ==
    (nl.mounted /\ ~nl.numbers.ok) =>
        /\ nl.tick = NoTick
        /\ nl.demoStep = 0
        /\ ~nl.isDemoPaused /\ ~nl.resumeRequested /\ ~nl.isDemoComplete
        /\ \A i \in 1..Len(messages) : messages[i].content.tag \notin StepTags

\* The timeouts of the instance n that are pending: its tick, its settle
\* timeouts and its completion timeouts
PendingTimers(n) ==
    (IF n.tick # NoTick THEN 1 ELSE 0)
    + Cardinality({i \in 1..Len(resumeTimers) : resumeTimers[i].sid = n.sid})
    + Cardinality({i \in 1..Len(completionTimers) : completionTimers[i].sid = n.sid})

\* C23 (as the specification states it): the demo has at most one
\* timeout pending, counting its tick, its resume settle timeouts and its
\* completion timeouts.
C23_AtMostOneTimer == nl.mounted => PendingTimers(nl) <= 1

\* The pause and resume narrations of a transcript
ControlNarrations(msgs) ==
    SelectSeq(msgs, LAMBDA m : m.content.tag \in {"paused", "resuming"})

\* C25 (as the specification states it): a resume() call that finds the
\* demo not paused changes nothing: the player's state, its tick and its
\* other timeouts stay, and no narration is emitted; and no step of the
\* player sets currentStep back.
C25_ResumeOnlyWhenPaused ==
    [][/\ (h'.resumeCalls # h.resumeCalls /\ ~nl.isDemoPaused) =>
            /\ nl' = nl
            /\ resumeTimers' = resumeTimers
            /\ completionTimers' = completionTimers
            /\ messages' = messages
       /\ nl'.demoStep >= nl.demoStep]_vars

\* C26 (as the specification states it): the demo becomes paused only by
\* a pause() call and leaves Paused only by a resume() call; and once it
\* is Completed it stays Completed, and no step changes currentStep or
\* the paused and resuming flags or emits a pause or resume narration.
C26_CompletedIsTerminal ==
    [][/\ (~nl.isDemoPaused /\ nl'.isDemoPaused) => h'.pauseCalls # h.pauseCalls
       /\ (nl.isDemoPaused /\ ~nl'.isDemoPaused) => h'.resumeCalls # h.resumeCalls
       /\ nl.isDemoComplete =>
            /\ nl'.isDemoComplete
            /\ nl'.demoStep = nl.demoStep
            /\ nl'.isDemoPaused = nl.isDemoPaused
            /\ nl'.resumeRequested = nl.resumeRequested
            /\ ControlNarrations(messages') = ControlNarrations(messages)]_vars

\* a + k for an addition, a - k for a subtraction
Moved(numbers, k) ==
    IF numbers.operator = "+" THEN numbers.firstNumber + k
    ELSE numbers.firstNumber - k

\* C27: a tick advances currentStep by exactly one; the position a step
\* k adds to the path is a + k for an addition and a - k for a
\* subtraction; and the result the demo narrates, hands to its completion
\* timeouts and to onAnswer is a + b for an addition and a - b for a
\* subtraction.
C27_TicksPositionsResult ==
    [][nl'.numbers.ok =>
        LET result == Moved(nl'.numbers, nl'.numbers.secondNumber)
        IN /\ h'.ticks # h.ticks => nl'.demoStep = nl.demoStep + 1
           /\ nl'.steps # nl.steps => Last(nl'.steps) = Moved(nl'.numbers, nl'.demoStep)
           /\ \A i \in 1..Len(completionTimers') : completionTimers'[i].result = result
           /\ \A i \in 1..Len(h'.handed) : h'.handed[i].result = result
           /\ \A i \in 1..Len(messages') :
                messages'[i].content.tag = "done"
                    => messages'[i].content.n = result]_vars

\* A subtraction of two steps has been played to its end and has handed
\* its result to onAnswer.
C27_Witness ==
    /\ nl.numbers.ok /\ nl.numbers.operator = "-"
    /\ nl.numbers.secondNumber >= 2
    /\ nl.isDemoComplete
    /\ h.ticks >= 3
    /\ h.handed # <<>>
    /\ Len(nl.steps) >= 3

\* The positions a demo on numbers visits: a, a +- 1, ..., a +- b
DemoProgression(numbers) ==
    [i \in 1..(numbers.secondNumber + 1) |-> Moved(numbers, i - 1)]

\* C34 (as the specification states it): the path a demo displays is a
\* prefix of the positions a, a +- 1, ..., a +- b, without a duplicate,
\* and the step narrations emitted are a prefix of the narrations of the
\* steps, each emitted once, whatever pause() and resume() calls came
\* between the ticks.
C34_PathAndNarrationsOnce ==
    (nl.mounted /\ nl.numbers.ok) =>
        /\ IsPrefix(nl.steps, DemoProgression(nl.numbers))
        /\ IsPrefix(SelectSeq(Narrations(messages), LAMBDA m : m.tag \in StepTags),
                    ExpectedStepNarrations(nl.numbers))

=============================================================================
